---- MODULE Spec2Model ----
(***************************************************************************)
(* A model of the project-model core of ASPython (src/ASTools.py): the     *)
(* library export engine of Project, the task deployment table             *)
(* SwDeploymentTable, the directory synchronisation of Package and         *)
(* Library, the binary export, the batch build, and the two export         *)
(* scripts CmdLineExportLib.py and ExportLibraries.py.                     *)
(*                                                                         *)
(* Strings are sequences of one-character strings, so that str.lower(),    *)
(* slicing, fnmatch and os.path.splitext are computed, not assumed.        *)
(***************************************************************************)
EXTENDS Integers, Sequences, FiniteSets, TLC

VARIABLES
    \* ---- Project export engine ----
    libraries,   \* Project.libraries: the discovered libraries (their names), in discovery order
    deps,        \* Library.dependencyNames of every discovered library
    destDirs,    \* the library directories that exist under the export destination
    pc,          \* "idle" | "batch" | "closure" | "returned" | "raised"
    call,        \* the arguments of the running exportLibraries / exportLibrary call
    exportLibs,  \* exportLibraries: the selected libraries
    batchIdx,    \* exportLibraries: position of the export loop in exportLibs
    stack,       \* exportLibrary: the recursion, one frame per active call
    exportLog,   \* the Library.export calls made by the running call, in order
    exportConfigs, \* the buildConfigs argument of each of these Library.export calls
    result,      \* the ProjectExportInfo being built (exportLibraries) or returned
    \* ---- SwDeploymentTable ----
    swDisk,      \* the deployment table file: NoFile, CorruptFile or a document
    swDoc,       \* the SwDeploymentTable object: NoObject, Unloaded (no tree) or its tree
    swAdded,     \* the root children the constructor added at the last load
    swLast,      \* the last operation on the table and its outcome
    \* ---- Package ----
    pkgDir,      \* os.listdir of the package directory: the item names, in enumeration order
    pkgDoc,      \* the Package's tree: the children of its Objects element
    pkgLast,     \* the last operation on the package, and whether it changed the tree
    \* ---- Library ----
    libDir,      \* os.listdir of the library directory: the item names, in enumeration order
    libDoc,      \* the Library's tree: its list element and that element's children
    libTags,     \* the cached _xmlTag and _xmlTagChild
    libLast,     \* the last operation on the library, and what it did
    \* ---- ProjectExportInfo ----
    infoMain,    \* a ProjectExportInfo
    infoOther,   \* another ProjectExportInfo, to be merged into the first
    infoLog,     \* the LibExportInfo objects given to the first, in the order given
    infoCalls,   \* how many were added directly, how many came with merged aggregates
    \* ---- xmlAsFile ----
    docDisk,     \* the manifest file at the document's path, or none
    docTree,     \* the xmlAsFile object's tree (_package), or no object
    docFirst,    \* the tree as the constructor read it
    docLast,     \* the last operation on the document, the writes and mutations so far
    \* ---- Library._collectBinaryLibrary ----
    binTemp,     \* the build artifacts that exist under the project's Temp folder
    binDest,     \* the export destination of the library: whether it exists, the artifacts in it
    binLast,     \* the last operation on the destination: its buildConfigs and its outcome
    \* ---- batchBuildAsProject ----
    buildRuns,   \* the buildASProject calls of the last batch build: configuration and return code
    buildResult, \* what the last batch build gave its caller
    \* ---- the export scripts ----
    script       \* the running script: its arguments, the destination before the run, its exit

exportVars == <<libraries, deps, destDirs, pc, call, exportLibs, batchIdx, stack, exportLog,
                exportConfigs, result>>

deployVars == <<swDisk, swDoc, swAdded, swLast>>

packageVars == <<pkgDir, pkgDoc, pkgLast>>

libraryVars == <<libDir, libDoc, libTags, libLast>>

infoVars == <<infoMain, infoOther, infoLog, infoCalls>>

docVars == <<docDisk, docTree, docFirst, docLast>>

binaryVars == <<binTemp, binDest, binLast>>

buildVars == <<buildRuns, buildResult>>

scriptVars == <<script>>

vars == <<exportVars, deployVars, packageVars, libraryVars, infoVars, docVars, binaryVars, buildVars,
          scriptVars>>

\* What an operation of one component leaves alone: the other components
notExportVars ==
    <<deployVars, packageVars, libraryVars, infoVars, docVars, binaryVars, buildVars, scriptVars>>
notDeployVars ==
    <<exportVars, packageVars, libraryVars, infoVars, docVars, binaryVars, buildVars, scriptVars>>
notPackageVars ==
    <<exportVars, deployVars, libraryVars, infoVars, docVars, binaryVars, buildVars, scriptVars>>
notLibraryVars ==
    <<exportVars, deployVars, packageVars, infoVars, docVars, binaryVars, buildVars, scriptVars>>
notInfoVars ==
    <<exportVars, deployVars, packageVars, libraryVars, docVars, binaryVars, buildVars, scriptVars>>
notDocVars ==
    <<exportVars, deployVars, packageVars, libraryVars, infoVars, binaryVars, buildVars, scriptVars>>
notBinaryVars ==
    <<exportVars, deployVars, packageVars, libraryVars, infoVars, docVars, buildVars, scriptVars>>
notBuildVars ==
    <<exportVars, deployVars, packageVars, libraryVars, infoVars, docVars, binaryVars, scriptVars>>

----------------------------------------------------------------------------
(* Strings *)

UpperToLower ==
    ("A" :> "a") @@ ("B" :> "b") @@ ("C" :> "c") @@ ("D" :> "d") @@ ("E" :> "e") @@
    ("F" :> "f") @@ ("G" :> "g") @@ ("H" :> "h") @@ ("I" :> "i") @@ ("J" :> "j") @@
    ("K" :> "k") @@ ("L" :> "l") @@ ("M" :> "m") @@ ("N" :> "n") @@ ("O" :> "o") @@
    ("P" :> "p") @@ ("Q" :> "q") @@ ("R" :> "r") @@ ("S" :> "s") @@ ("T" :> "t") @@
    ("U" :> "u") @@ ("V" :> "v") @@ ("W" :> "w") @@ ("X" :> "x") @@ ("Y" :> "y") @@
    ("Z" :> "z")

\* str.lower()
Lower(s) == [i \in 1..Len(s) |-> IF s[i] \in DOMAIN UpperToLower THEN UpperToLower[s[i]] ELSE s[i]]

Digits == {"0", "1", "2", "3", "4", "5", "6", "7", "8", "9"}

\* The elements of a sequence, as a set
Range(s) == {s[i] : i \in 1..Len(s)}

\* s.startswith(p)
StartsWith(s, p) == Len(p) <= Len(s) /\ SubSeq(s, 1, Len(p)) = p

\* A sequence without its i-th element
RemoveAt(s, i) == [j \in 1..(Len(s) - 1) |-> IF j < i THEN s[j] ELSE s[j + 1]]

\* Library names used by the export scenarios
nA == <<"A">>
nB == <<"B">>
nC == <<"C">>
nLowerA == <<"a">>
nLowerB == <<"b">>
nD == <<"D">>
nAsLib == <<"A", "s", "L", "i", "b">>

----------------------------------------------------------------------------
(* ProjectExportInfo *)

\* ProjectExportInfo.__init__
NewExportInfo == [success |-> <<>>, failed |-> <<>>]

\* ProjectExportInfo.addLibInfo, were it to keep the successes only
addSuccessOnly(info, libInfo) ==
    IF libInfo.exception = "None"
    THEN [info EXCEPT !.success = Append(@, libInfo)]
    ELSE info

\* ProjectExportInfo.addLibInfo
addLibInfo(info, libInfo) ==
    IF libInfo.exception = "None"
    THEN [info EXCEPT !.success = Append(@, libInfo)]
    ELSE [info EXCEPT !.failed = Append(@, libInfo)]

\* ProjectExportInfo.extend, for one merged aggregate
extendNothing(info, other) == info
extendInFront(info, other) ==
    [success |-> other.success \o info.success, failed |-> other.failed \o info.failed]
extend(info, other) ==
    [success |-> info.success \o other.success, failed |-> info.failed \o other.failed]

----------------------------------------------------------------------------
(* Project: library export engine *)

\* Python's recursion limit, which ends an unbounded recursion with RecursionError
MaxDepth == 4

\* A glob pattern of the ignore lists: a literal name, or a prefix followed by '*'
Literal(p) == [prefix |-> p, star |-> FALSE]
Prefix(p) == [prefix |-> p, star |-> TRUE]

\* fnmatch.fnmatch: both sides go through os.path.normcase, which lower-cases on
\* Windows, the platform of Automation Studio (getASPath: "C:\\BrAutomation")
fnmatch(name, pat) ==
    IF pat.star
    THEN StartsWith(Lower(name), Lower(pat.prefix))
    ELSE Lower(name) = Lower(pat.prefix)

\* Project.cacheIgnore
cacheIgnore ==
    << Literal(<<"_", "A", "S">>), Prefix(<<"A", "c", "p", "1", "0">>),
       Prefix(<<"A", "r", "n", "c", "0">>), Prefix(<<"M", "a", "p", "p">>),
       Literal(<<"M", "o", "t", "i", "o", "n">>), Literal(<<"T", "R", "F", "_", "L", "I", "B">>),
       Prefix(<<"M", "p">>), Prefix(<<"A", "s">>) >>

\* Project._checkIgnore: the names matching none of the patterns, order kept
_checkIgnore(names, ignores) ==
    SelectSeq(names, LAMBDA n : \A k \in 1..Len(ignores) : ~fnmatch(n, ignores[k]))

\* Project.getLibrariesByName: the known libraries whose name is in libNames,
\* in the order of Project.libraries; a name of no known library is dropped
getLibrariesByName(libs, libNames) ==
    SelectSeq(libs, LAMBDA l : l \in Range(libNames))

\* Project.exportLibraries, lines 736-753: the selection of the export set
SelectBlacklistFirst(libs, whitelist, blacklist) ==
    IF Len(blacklist) > 0
    THEN SelectSeq(libs, LAMBDA l : Lower(l) \notin {Lower(b) : b \in Range(blacklist)})
    ELSE IF Len(whitelist) > 0
    THEN SelectSeq(libs, LAMBDA l : Lower(l) \in {Lower(w) : w \in Range(whitelist)})
    ELSE libs
SelectExportLibs(libs, whitelist, blacklist) ==
    IF Len(whitelist) > 0
    THEN SelectSeq(libs, LAMBDA l : Lower(l) \in {Lower(w) : w \in Range(whitelist)})
    ELSE IF Len(blacklist) > 0
    THEN SelectSeq(libs, LAMBDA l : Lower(l) \notin {Lower(b) : b \in Range(blacklist)})
    ELSE libs

\* Library.export: the outcomes one export can have, each with the exception held
\* by the returned LibExportInfo ("Raised": an exception other than
\* FileNotFoundError / FileExistsError left export) and the destination afterwards.
\*   rmtree (overwrite and the path exists) removes the directory, or its onerror
\*   handler raises: FileNotFoundError from os.chmod when the entry is gone,
\*   Exception when the entry is writable; copytree raises FileExistsError on an existing destination,
\*   before anything is created; after the copy a missing artifact or manifest
\*   raises FileNotFoundError and any other failure propagates, both leaving the
\*   partial destination behind. The library's own directory is taken to exist
\*   (the project tree is not edited during an export).
AfterRmtree(lib, dirs, overwrite) ==
    IF overwrite /\ lib \in dirs
    THEN {[exception |-> "None", dirs |-> dirs \ {lib}],
          [exception |-> "FileNotFoundError", dirs |-> dirs],
          [exception |-> "Raised", dirs |-> dirs]}
    ELSE {[exception |-> "None", dirs |-> dirs]}

AfterCollect(lib, dirs) ==
    IF lib \in dirs
    THEN {[exception |-> "FileExistsError", dirs |-> dirs]}
    ELSE {[exception |-> "None", dirs |-> dirs \cup {lib}],
          [exception |-> "FileNotFoundError", dirs |-> dirs \cup {lib}],
          [exception |-> "Raised", dirs |-> dirs \cup {lib}]}

ExportOutcomes(lib, dirs, overwrite) ==
    UNION { IF r.exception # "None" THEN {r} ELSE AfterCollect(lib, r.dirs)
            : r \in AfterRmtree(lib, dirs, overwrite) }

\* LibExportInfo
LibExportInfo(name, exception) == [name |-> name, exception |-> exception]

\* The dependencies exportLibrary recurses into: lines 768-771
ResolveDependencies(lib, ignores) ==
    getLibrariesByName(libraries, _checkIgnore(_checkIgnore(deps[lib], ignores), cacheIgnore))

\* A frame of Project.exportLibrary: its library, its resolved dependencies, the
\* position of its loop over them, and its local ProjectExportInfo
Frame(lib, withDependencies, ignores) ==
    [lib |-> lib,
     deps |-> IF withDependencies THEN ResolveDependencies(lib, ignores) ELSE <<>>,
     i |-> 1,
     info |-> NewExportInfo]

\* The frame of a recursive call, line 774: withDependencies is not passed on and
\* defaults to True
RecursiveFrameWithoutDependencies(lib, ignores) == Frame(lib, FALSE, ignores)
RecursiveFrame(lib, ignores) == Frame(lib, TRUE, ignores)

NoCall == [op |-> "none"]

\* BuildConfig: name, type (typ, 'sg4' unless given) and hardware
BuildConfig(name, typ, hardware) == [name |-> name, type |-> typ, hardware |-> hardware]

\* Project.buildConfigs: the configurations discovered under Physical, each with
\* the type getConfigType gives for its hardware
projectBuildConfigs ==
    << BuildConfig("Intel", "sg4", "X20CP1584"), BuildConfig("Arm", "sg4_arm", "X20CP0484") >>

\* The buildConfigs argument of exportLibraries: None (the default) or a list
None == [given |-> FALSE, list |-> <<>>]
Given(list) == [given |-> TRUE, list |-> list]
BuildConfigArgs ==
    { None, Given(projectBuildConfigs),
      Given(<< BuildConfig("Arm", "sg4_arm", "X20CP0484") >>) }

\* The dependency lists a library manifest may declare
DepLists == { <<>>, <<nA>>, <<nB>>, <<nC>>, <<nC, nB>>, <<nAsLib, nB, nD>> }

\* The user's ignore list
IgnoreChoices == { <<>>, <<Literal(nLowerB)>> }

\* The white and black lists
NameLists == { <<>>, <<nA>>, <<nLowerA>>, <<nA, nB>>, <<nLowerB, nC>>, <<nD>> }

\* The export engine at rest: a project of three libraries without dependencies
InitIdleExport ==
    /\ libraries = <<nA, nB, nC>>
    /\ deps = [l \in Range(libraries) |-> <<>>]
    /\ destDirs = {}
    /\ pc = "idle"
    /\ call = NoCall
    /\ exportLibs = <<>>
    /\ batchIdx = 1
    /\ stack = <<>>
    /\ exportLog = <<>>
    /\ exportConfigs = <<>>
    /\ result = NewExportInfo

\* The deployment table component at rest
InitIdleDeploy ==
    /\ swDisk = [kind |-> "NoFile"]
    /\ swDoc = [kind |-> "NoObject"]
    /\ swAdded = {}
    /\ swLast = [op |-> "none"]

\* The package component at rest: an empty package
InitIdlePackage ==
    /\ pkgDir = << <<"P", "a", "c", "k", "a", "g", "e", ".", "p", "k", "g">> >>
    /\ pkgDoc = [ns |-> TRUE, entries |-> <<>>]
    /\ pkgLast = [op |-> "none"]

\* The library component at rest: a library of no files
InitIdleLibrary ==
    /\ libDir = << <<"I", "E", "C", ".", "l", "b", "y">> >>
    /\ libDoc = [ns |-> TRUE, listTag |-> "Files", entries |-> <<>>]
    /\ libTags = [_xmlTag |-> "Files", _xmlTagChild |-> "File"]
    /\ libLast = [op |-> "none"]

\* The document component at rest: no file and no object
InitIdleDoc ==
    /\ docDisk = [kind |-> "NoFile"]
    /\ docTree = [kind |-> "NoObject"]
    /\ docFirst = [kind |-> "NoObject"]
    /\ docLast = [op |-> "none"]

\* The binary export at rest: nothing built, nothing exported
InitIdleBinary ==
    /\ binTemp = {}
    /\ binDest = [exists |-> FALSE, files |-> {}]
    /\ binLast = [op |-> "none"]

\* No script runs
InitIdleScript == script = [name |-> "none"]

\* No batch build yet
InitIdleBuild ==
    /\ buildRuns = <<>>
    /\ buildResult = [op |-> "none"]

\* Two ProjectExportInfo objects as constructed
InitIdleInfo ==
    /\ infoMain = NewExportInfo
    /\ infoOther = NewExportInfo
    /\ infoLog = <<>>
    /\ infoCalls = [added |-> 0, merged |-> 0]

\* A project of three libraries whose manifests declare any of the dependency lists
InitClosure ==
    /\ InitIdleInfo
    /\ InitIdleBinary
    /\ InitIdleBuild
    /\ InitIdleScript
    /\ InitIdleDoc
    /\ InitIdleDeploy
    /\ InitIdlePackage
    /\ InitIdleLibrary
    /\ libraries = <<nA, nB, nC>>
    /\ deps \in [Range(libraries) -> DepLists]
    /\ destDirs = {}
    /\ pc = "idle"
    /\ call = NoCall
    /\ exportLibs = <<>>
    /\ batchIdx = 1
    /\ stack = <<>>
    /\ exportLog = <<>>
    /\ exportConfigs = <<>>
    /\ result = NewExportInfo

\* Project.exportLibraries is called: lines 731-755
CallExportLibraries(overwrite, buildConfigs, whitelist, blacklist) ==
    /\ UNCHANGED notExportVars
    /\ pc = "idle"
    /\ pc' = "batch"
    /\ call' = [op |-> "exportLibraries", overwrite |-> overwrite,
                buildConfigs |-> IF buildConfigs = None THEN Given(projectBuildConfigs)
                                 ELSE buildConfigs,
                whitelist |-> whitelist, blacklist |-> blacklist]
    /\ exportLibs' = SelectExportLibs(libraries, whitelist, blacklist)
    /\ batchIdx' = 1
    /\ exportLog' = <<>>
    /\ exportConfigs' = <<>>
    /\ result' = NewExportInfo
    /\ UNCHANGED <<libraries, deps, destDirs, stack>>

\* One round of the export loop of exportLibraries: lines 756-759
BatchExport ==
    /\ UNCHANGED notExportVars
    /\ pc = "batch"
    /\ batchIdx <= Len(exportLibs)
    /\ \E o \in ExportOutcomes(exportLibs[batchIdx], destDirs, call.overwrite) :
          /\ destDirs' = o.dirs
          /\ exportLog' = Append(exportLog, exportLibs[batchIdx])
          /\ exportConfigs' = Append(exportConfigs, projectBuildConfigs)
          /\ IF o.exception = "Raised"
             THEN /\ pc' = "raised"
                  /\ UNCHANGED <<batchIdx, result>>
             ELSE /\ result' = addLibInfo(result, LibExportInfo(exportLibs[batchIdx], o.exception))
                  /\ batchIdx' = batchIdx + 1
                  /\ pc' = pc
    /\ UNCHANGED <<libraries, deps, call, exportLibs, stack>>

\* exportLibraries returns its aggregate: line 761
BatchReturn ==
    /\ UNCHANGED notExportVars
    /\ pc = "batch"
    /\ batchIdx > Len(exportLibs)
    /\ pc' = "returned"
    /\ UNCHANGED <<libraries, deps, destDirs, call, exportLibs, batchIdx, stack, exportLog,
                   exportConfigs, result>>

\* Project.exportLibrary is called: lines 763-771
CallExportLibrary(lib, overwrite, ignores, withDependencies) ==
    /\ UNCHANGED notExportVars
    /\ pc = "idle"
    /\ pc' = "closure"
    /\ call' = [op |-> "exportLibrary", library |-> lib, overwrite |-> overwrite,
                ignores |-> ignores, withDependencies |-> withDependencies]
    /\ stack' = <<Frame(lib, withDependencies, ignores)>>
    /\ exportLog' = <<>>
    /\ exportConfigs' = <<>>
    /\ result' = NewExportInfo
    /\ UNCHANGED <<libraries, deps, destDirs, exportLibs, batchIdx>>

\* The recursive call for the next dependency: lines 773-774. The recursive call
\* does not pass withDependencies on, so it defaults to True.
Recurse ==
    /\ UNCHANGED notExportVars
    /\ pc = "closure"
    /\ LET top == stack[Len(stack)] IN
          /\ top.i <= Len(top.deps)
          /\ IF Len(stack) >= MaxDepth
             THEN /\ pc' = "raised"
                  /\ stack' = stack
             ELSE /\ stack' = Append(stack, RecursiveFrame(top.deps[top.i], call.ignores))
                  /\ pc' = pc
    /\ UNCHANGED <<libraries, deps, destDirs, call, exportLibs, batchIdx, exportLog,
                   exportConfigs, result>>

\* The library's own export, after its dependencies, and the return: lines 775-780
ExportSelf ==
    /\ UNCHANGED notExportVars
    /\ pc = "closure"
    /\ LET top == stack[Len(stack)]
           n == Len(stack)
       IN /\ top.i > Len(top.deps)
          /\ \E o \in ExportOutcomes(top.lib, destDirs, call.overwrite) :
                /\ destDirs' = o.dirs
                /\ exportLog' = Append(exportLog, top.lib)
                /\ exportConfigs' = Append(exportConfigs, projectBuildConfigs)
                /\ IF o.exception = "Raised"
                   THEN /\ pc' = "raised"
                        /\ UNCHANGED <<stack, result>>
                   ELSE LET info == addLibInfo(top.info, LibExportInfo(top.lib, o.exception)) IN
                        IF n = 1
                        THEN /\ pc' = "returned"
                             /\ stack' = <<>>
                             /\ result' = info
                        ELSE /\ pc' = pc
                             /\ stack' = [SubSeq(stack, 1, n - 1) EXCEPT
                                            ![n - 1].info = extend(@, info),
                                            ![n - 1].i = @ + 1]
                             /\ UNCHANGED result
    /\ UNCHANGED <<libraries, deps, call, exportLibs, batchIdx>>

\* The caller takes the result, or the exception, and the project is idle again
Finish ==
    /\ UNCHANGED notExportVars
    /\ pc \in {"returned", "raised"}
    /\ pc' = "idle"
    /\ call' = NoCall
    /\ exportLibs' = <<>>
    /\ batchIdx' = 1
    /\ stack' = <<>>
    /\ exportLog' = <<>>
    /\ exportConfigs' = <<>>
    /\ result' = NewExportInfo
    /\ UNCHANGED <<libraries, deps, destDirs>>

\* Project.exportLibraries on a project of three libraries
NextBatch ==
    \/ \E ow \in BOOLEAN, bc \in BuildConfigArgs, wl \in NameLists, bl \in NameLists :
          CallExportLibraries(ow, bc, wl, bl)
    \/ BatchExport
    \/ BatchReturn
    \/ Finish

\* Project.exportLibrary on every dependency graph of DepLists
NextClosure ==
    \/ \E lib \in Range(libraries), ow \in BOOLEAN, ig \in IgnoreChoices, wd \in BOOLEAN :
          CallExportLibrary(lib, ow, ig, wd)
    \/ Recurse
    \/ ExportSelf
    \/ Finish

\* exportLibraries reads no dependency: the manifests declare none
InitBatch ==
    /\ InitClosure
    /\ deps = [l \in Range(libraries) |-> <<>>]

SpecBatch == InitBatch /\ [][NextBatch]_vars

SpecClosure == InitClosure /\ [][NextClosure]_vars

----------------------------------------------------------------------------
(* Claims about the export engine *)

\* The export set the selection rule describes, as a set of names
ExpectedExportSet(libs, whitelist, blacklist) ==
    IF whitelist # <<>>
    THEN {l \in Range(libs) : \E k \in 1..Len(whitelist) : Lower(l) = Lower(whitelist[k])}
    ELSE IF blacklist # <<>>
    THEN {l \in Range(libs) : \A k \in 1..Len(blacklist) : Lower(l) # Lower(blacklist[k])}
    ELSE Range(libs)

IsChainCall ==
    /\ call.op = "exportLibrary"
    /\ call.library = nA
    /\ call.withDependencies
    /\ call.ignores = <<>>
    /\ deps[nA] = <<nB>>
    /\ deps[nB] = <<nC>>
    /\ deps[nC] = <<>>

\* C2: on the chain the exports happen in the order C, B, A and the returned
\* aggregate holds exactly 3 entries; in every returned dependency-closure export
\* each library is exported after all the dependencies it resolves to.
C2_ChainOrder ==
    /\ IsChainCall =>
          /\ exportLog = SubSeq(<<nC, nB, nA>>, 1, Len(exportLog))
          /\ pc = "returned" =>
                /\ exportLog = <<nC, nB, nA>>
                /\ Len(result.success) + Len(result.failed) = 3
                /\ {i.name : i \in Range(result.success) \cup Range(result.failed)} = {nA, nB, nC}
    /\ (call.op = "exportLibrary" /\ call.withDependencies /\ pc = "returned") =>
          \A k \in 1..Len(exportLog) :
             \A d \in Range(ResolveDependencies(exportLog[k], call.ignores)) :
                \E j \in 1..(k - 1) : exportLog[j] = d

C2_Witness ==
    /\ IsChainCall
    /\ pc = "returned"
    /\ exportLog = <<nC, nB, nA>>
    /\ Len(result.success) = 2
    /\ Len(result.failed) = 1

\* exportLibrary(A, withDependencies=True) on the cycle A -> B -> A
IsCycleCall ==
    /\ call.op = "exportLibrary"
    /\ call.library = nA
    /\ call.withDependencies
    /\ call.ignores = <<>>
    /\ deps[nA] = <<nB>>
    /\ deps[nB] = <<nA>>

\* C3: on the cycle the call never returns and never reaches a library export; the
\* recursion alternates A, B, A, ... and ends only when the recursion limit is hit.
C3_CycleNeverReturns ==
    IsCycleCall =>
        /\ pc \in {"closure", "raised"}
        /\ exportLog = <<>>
        /\ \A k \in 1..Len(stack) : stack[k].lib = (IF k % 2 = 1 THEN nA ELSE nB)
        /\ (pc = "raised" => Len(stack) = MaxDepth)

C3_Witness ==
    /\ IsCycleCall
    /\ pc = "raised"
    /\ Len(stack) = MaxDepth
    /\ exportLog = <<>>


----------------------------------------------------------------------------
(* SwDeploymentTable *)

\* The number of task classes the constructor looks for: range(8)
NumTaskClasses == 8
\* The length a task's Name is cut to: taskName[:10]
TaskNameLen == 10
\* The entries (LibraryObject and Task elements) up to which the model deploys
MaxEntries == 2

DigitChar == <<"1", "2", "3", "4", "5", "6", "7", "8", "9">>

\* f"Cyclic#{n}"
Cyclic(n) == <<"C", "y", "c", "l", "i", "c", "#", DigitChar[n]>>

\* An element of the tree: its tag, whether the tag is qualified with the
\* document's namespace ("{ns}Tag"), its Name attribute and its children. A parsed
\* element is qualified exactly when the document declares a namespace; an element
\* made by ET.Element('Tag') is not.
Element(tag, q, name, kids) == [tag |-> tag, q |-> q, name |-> name, kids |-> kids]

\* xmlAsFile.read: ET.parse. Every element of a file lies in the default namespace
\* its root declares.
Requalify(kids, ns) ==
    [i \in 1..Len(kids) |->
        Element(kids[i].tag, ns, kids[i].name,
                [j \in 1..Len(kids[i].kids) |->
                    Element(kids[i].kids[j].tag, ns, kids[i].kids[j].name, <<>>)])]

Parse(file) == [kind |-> "Tree", ns |-> file.ns, kids |-> Requalify(file.kids, file.ns)]

\* xmlAsFile.write: unqualified elements are written without prefix inside the
\* root's default namespace, so the file is what Parse reads back
Serialize(doc) == [kind |-> "File", ns |-> doc.ns, kids |-> Requalify(doc.kids, doc.ns)]

\* xmlAsFile.find, one level: the index of the first child of the root with the
\* namespace-qualified tag and, when name is given, that Name; 0 for None
FindRoot(doc, tag, name) ==
    LET hits == {i \in 1..Len(doc.kids) :
                    /\ doc.kids[i].tag = tag
                    /\ doc.kids[i].q = doc.ns
                    /\ doc.kids[i].name = name}
    IN IF hits = {} THEN 0 ELSE CHOOSE i \in hits : \A j \in hits : i <= j

\* xmlAsFile.find / findall, two levels: the (parent, child) positions of the
\* qualified children with childTag of the qualified root children with tag (and
\* parentName, when the path has that predicate), in document order
FindAll2(doc, tag, parentName, anyParent, childTag) ==
    {<<i, j>> \in (1..Len(doc.kids)) \X (1..MaxEntries + 2) :
        /\ doc.kids[i].tag = tag
        /\ doc.kids[i].q = doc.ns
        /\ (anyParent \/ doc.kids[i].name = parentName)
        /\ j <= Len(doc.kids[i].kids)
        /\ doc.kids[i].kids[j].tag = childTag
        /\ doc.kids[i].kids[j].q = doc.ns}

\* list.insert(index, x): at the end when index is beyond it
InsertAt(seq, index, x) ==
    IF index >= Len(seq)
    THEN Append(seq, x)
    ELSE SubSeq(seq, 1, index) \o <<x>> \o SubSeq(seq, index + 1, Len(seq))

\* SwDeploymentTable.__init__, line 1096-1097: is the task class there?
NeverHasTaskClass(doc, n) == FALSE
HasTaskClass(doc, n) == FindRoot(doc, "TaskClass", Cyclic(n)) # 0

\* SwDeploymentTable._addRootLevelElement (the write is part of the constructor)
_addRootLevelElement(doc, tag, index, name) ==
    [doc EXCEPT !.kids =
        IF index = -1
        THEN Append(@, Element(tag, FALSE, name, <<>>))
        ELSE InsertAt(@, index, Element(tag, FALSE, name, <<>>))]

\* SwDeploymentTable.__init__, lines 1095-1099: for i in range(8)
RECURSIVE AddMissingTaskClasses(_, _)
AddMissingTaskClasses(doc, i) ==
    IF i = NumTaskClasses
    THEN doc
    ELSE AddMissingTaskClasses(
            IF HasTaskClass(doc, i + 1)
            THEN doc
            ELSE _addRootLevelElement(doc, "TaskClass", i, Cyclic(i + 1)),
            i + 1)

\* SwDeploymentTable.__init__, lines 1101-1103
AddMissingLibraries(doc) ==
    IF FindRoot(doc, "Libraries", <<>>) = 0
    THEN _addRootLevelElement(doc, "Libraries", -1, <<>>)
    ELSE doc

\* SwDeploymentTable.__init__ on an existing, well-formed file: the tree after the
\* final read, which is also what the file holds
LoadTable(file) == Parse(Serialize(AddMissingLibraries(AddMissingTaskClasses(Parse(file), 0))))

\* SwDeploymentTable.libraries: the Name of every LibraryObject findall returns
TableLibraries(doc) ==
    {doc.kids[p[1]].kids[p[2]].name : p \in FindAll2(doc, "Libraries", <<>>, TRUE, "LibraryObject")}

\* [s for s in taskClass if s.isdigit()]: the positions of the digits
DigitPositions(s) == {i \in 1..Len(s) : s[i] \in Digits}

\* "Cyclic#" + the first digit of taskClass (deployTask, line 1119)
CyclicNameOf(taskClass) ==
    LET first == CHOOSE i \in DigitPositions(taskClass) : \A j \in DigitPositions(taskClass) : i <= j
    IN <<"C", "y", "c", "l", "i", "c", "#", taskClass[first]>>

\* taskName[:10]
WholeName(name) == name
Truncated(name) == SubSeq(name, 1, IF Len(name) < TaskNameLen THEN Len(name) ELSE TaskNameLen)

\* Element.append on the idx-th child of the root
AppendUnder(doc, idx, elem) == [doc EXCEPT !.kids[idx].kids = Append(@, elem)]

\* The number of LibraryObject and Task elements of a tree
RECURSIVE CountEntries(_, _)
CountEntries(kids, i) ==
    IF i > Len(kids) THEN 0 ELSE Len(kids[i].kids) + CountEntries(kids, i + 1)

IsTree(d) == d.kind = "Tree"

\* No file at the path; a file that is not well-formed XML; no object; an object
\* whose constructor read no tree
NoFile == [kind |-> "NoFile"]
CorruptFile == [kind |-> "CorruptFile"]
NoObject == [kind |-> "NoObject"]
Unloaded == [kind |-> "Unloaded"]

\* ---- inputs ----
libFoo == <<"F", "o", "o">>
libFooLower == <<"f", "o", "o">>
libBar == <<"B", "a", "r">>
taskLong == <<"V", "e", "r", "y", "L", "o", "n", "g", "T", "a", "s", "k", "N", "a", "m", "e", "1", "2", "3">>
taskLongOther == <<"V", "e", "r", "y", "L", "o", "n", "g", "T", "a", "X">>
taskLongLower == <<"v", "e", "r", "y", "l", "o", "n", "g", "t", "a", "s", "k">>
taskShort == <<"P", "u", "m", "p">>
classCyclic3 == <<"C", "y", "c", "l", "i", "c", "#", "3">>
classTc12 == <<"T", "C", "1", "2">>
classCyclic9 == <<"C", "y", "c", "l", "i", "c", "#", "9">>
classNoDigit == <<"C", "y", "c", "l", "i", "c">>

LibraryArgs == {libFoo, libFooLower, libBar}
\* The deployTask calls: <<taskName, taskClass, what the task folder is>>. What
\* os.path.join('Logical', taskFolder, taskName) is: a folder with ANSIC.prg or
\* IEC.prg (Task.type is the language), a folder with neither (Task.type is None),
\* or no folder (Task has no type attribute)
TaskCalls ==
    { <<taskLong, classCyclic3, "Program">>, <<taskLongOther, classCyclic3, "Program">>,
      <<taskLongLower, classCyclic3, "Program">>, <<taskShort, classTc12, "Program">>,
      <<taskShort, classCyclic9, "Program">>, <<taskShort, classNoDigit, "Program">>,
      <<taskShort, classCyclic3, "NoDir">>, <<taskShort, classTc12, "NoPrg">> }

\* The root children a deployment table file may start with: the task classes of
\* PresentSets and possibly the Libraries node, in ascending order with Libraries
\* last, or in descending order behind Libraries and a node of another kind
PresentSets == SUBSET {1, 8} \cup {1..NumTaskClasses, (1..NumTaskClasses) \ {2}}

RECURSIVE ClassNodes(_, _, _)
ClassNodes(present, n, ns) ==
    IF n > NumTaskClasses THEN <<>>
    ELSE (IF n \in present THEN <<Element("TaskClass", ns, Cyclic(n), <<>>)>> ELSE <<>>)
         \o ClassNodes(present, n + 1, ns)

Reverse(s) == [i \in 1..Len(s) |-> s[Len(s) + 1 - i]]

InitialFiles ==
    { [kind |-> "File", ns |-> ns,
       kids |-> IF ascending
                THEN ClassNodes(present, 1, ns)
                     \o (IF libs THEN <<Element("Libraries", ns, <<>>, <<>>)>> ELSE <<>>)
                ELSE (IF libs THEN <<Element("Libraries", ns, <<>>, <<>>)>> ELSE <<>>)
                     \o <<Element("Configuration", ns, <<>>, <<>>)>>
                     \o Reverse(ClassNodes(present, 1, ns))]
      : ns \in BOOLEAN, present \in PresentSets, libs \in BOOLEAN, ascending \in BOOLEAN }

\* The root children the constructor finds missing in a file
MissingNodes(file) ==
    {Cyclic(n) : n \in {m \in 1..NumTaskClasses : ~HasTaskClass(Parse(file), m)}}
    \cup (IF FindRoot(Parse(file), "Libraries", <<>>) = 0 THEN {<<"L", "i", "b", "r", "a", "r", "i", "e", "s">>} ELSE {})

\* SwDeploymentTable(path): lines 1089-1104. Without a file at path the constructor
\* reads nothing and returns an object that has no tree; a file that is not
\* well-formed XML makes ET.parse raise.
Load ==
    /\ UNCHANGED notDeployVars
    /\ IF swDisk = NoFile
       THEN /\ swDoc' = Unloaded
            /\ swLast' = [op |-> "load", outcome |-> "no tree"]
            /\ UNCHANGED <<swDisk, swAdded>>
       ELSE IF swDisk = CorruptFile
       THEN /\ swDoc' = NoObject
            /\ swLast' = [op |-> "load", outcome |-> "ParseError"]
            /\ UNCHANGED <<swDisk, swAdded>>
       ELSE /\ swDoc' = LoadTable(swDisk)
            /\ swDisk' = Serialize(LoadTable(swDisk))
            /\ swAdded' = MissingNodes(swDisk)
            /\ swLast' = [op |-> "load", outcome |-> "loaded"]

\* SwDeploymentTable.deployLibrary: lines 1106-1115
deployLibrary(library) ==
    /\ UNCHANGED notDeployVars
    /\ UNCHANGED swAdded
    /\ IsTree(swDoc)
    /\ CountEntries(swDoc.kids, 1) < MaxEntries
    /\ LET obj == FindRoot(swDoc, "Libraries", <<>>)
           found == \E lib \in TableLibraries(swDoc) : Lower(lib) = Lower(library)
       IN IF found
          THEN /\ swLast' = [op |-> "deployLibrary", outcome |-> "found"]
               /\ UNCHANGED <<swDoc, swDisk>>
          ELSE /\ swDoc' = AppendUnder(swDoc, obj, Element("LibraryObject", FALSE, library, <<>>))
               /\ swDisk' = Serialize(swDoc')
               /\ swLast' = [op |-> "deployLibrary", outcome |-> "appended"]

\* SwDeploymentTable.deployTask: lines 1117-1128, with _createTaskElement
deployTask(taskName, taskClass, folderKind) ==
    /\ UNCHANGED notDeployVars
    /\ UNCHANGED swAdded
    /\ IsTree(swDoc)
    /\ CountEntries(swDoc.kids, 1) < MaxEntries
    /\ IF DigitPositions(taskClass) = {}
       THEN \* line 1119: IndexError
            /\ swLast' = [op |-> "deployTask", outcome |-> "IndexError"]
            /\ UNCHANGED <<swDoc, swDisk>>
       ELSE LET cyclicName == CyclicNameOf(taskClass)
                tc == FindRoot(swDoc, "TaskClass", cyclicName)
                preexisting ==
                    {p \in FindAll2(swDoc, "TaskClass", cyclicName, FALSE, "Task") :
                        swDoc.kids[p[1]].kids[p[2]].name = Truncated(taskName)}
            IN IF preexisting # {}
               THEN /\ swLast' = [op |-> "deployTask", outcome |-> "found"]
                    /\ UNCHANGED <<swDoc, swDisk>>
               ELSE IF folderKind = "NoDir" \/ tc = 0
               THEN \* line 1150 (task.type) or line 1127 (tc is None): AttributeError
                    /\ swLast' = [op |-> "deployTask", outcome |-> "AttributeError"]
                    /\ UNCHANGED <<swDoc, swDisk>>
               ELSE /\ swDoc' = AppendUnder(swDoc, tc, Element("Task", FALSE, Truncated(taskName), <<>>))
                    /\ IF folderKind = "NoPrg"
                       THEN \* Language is None: the serializer raises TypeError in mid-file
                            /\ swDisk' = CorruptFile
                            /\ swLast' = [op |-> "deployTask", outcome |-> "appended, TypeError"]
                       ELSE /\ swDisk' = Serialize(swDoc')
                            /\ swLast' = [op |-> "deployTask", outcome |-> "appended"]

\* A deploy operation on an object that has no tree: AttributeError (no _package)
DeployUnloaded ==
    /\ UNCHANGED notDeployVars
    /\ swDoc = Unloaded
    /\ swLast' = [op |-> "deploy", outcome |-> "AttributeError"]
    /\ UNCHANGED <<swDoc, swDisk, swAdded>>

NextDeploy ==
    \/ Load
    \/ \E library \in LibraryArgs : deployLibrary(library)
    \/ \E c \in TaskCalls : deployTask(c[1], c[2], c[3])
    \/ DeployUnloaded

\* A deployment table file, or none, and no object yet
InitDeploy ==
    /\ InitIdleExport
    /\ InitIdleBinary
    /\ InitIdleBuild
    /\ InitIdleScript
    /\ InitIdleDoc
    /\ InitIdleInfo
    /\ InitIdlePackage
    /\ InitIdleLibrary
    /\ swDisk \in InitialFiles \cup {NoFile}
    /\ swDoc = NoObject
    /\ swAdded = {}
    /\ swLast = [op |-> "none"]

SpecDeploy == InitDeploy /\ [][NextDeploy]_vars

----------------------------------------------------------------------------
(* Claims about the deployment table *)

\* The positions of the root children with a tag and a Name, qualified or not
RootNodes(doc, tag, name) ==
    {i \in 1..Len(doc.kids) : doc.kids[i].tag = tag /\ doc.kids[i].name = name}

\* C4: deployLibrary is idempotent by case-insensitive name: however often it is
\* called, reloaded in between or not, the Libraries node holds at most one
\* LibraryObject per name up to letter case (every entry of the model's tables comes
\* from a deployLibrary call).
C4_DeployLibraryIdempotent ==
    IsTree(swDoc) =>
        \A i \in RootNodes(swDoc, "Libraries", <<>>) :
           \A j, k \in 1..Len(swDoc.kids[i].kids) :
              j # k => Lower(swDoc.kids[i].kids[j].name) # Lower(swDoc.kids[i].kids[k].name)

\* C6: deployTask is a no-op when the class already holds a task whose name matches
\* the truncated name ignoring letter case: no scheduling class ever holds two Task
\* entries whose names are equal up to letter case.
C6_DeployTaskIdempotent ==
    IsTree(swDoc) =>
        \A i \in 1..Len(swDoc.kids) :
           \A j, k \in 1..Len(swDoc.kids[i].kids) :
              (swDoc.kids[i].tag = "TaskClass" /\ j # k)
                 => Lower(swDoc.kids[i].kids[j].name) # Lower(swDoc.kids[i].kids[k].name)

\* The first 10 characters of a name, the whole name when it is shorter
FirstTen(name) == [i \in 1..(IF Len(name) < 10 THEN Len(name) ELSE 10) |-> name[i]]

\* The first digit of a scheduling-class argument that has one
FirstDigit(taskClass) ==
    taskClass[CHOOSE i \in 1..Len(taskClass) :
                 /\ taskClass[i] \in Digits
                 /\ \A j \in 1..(i - 1) : taskClass[j] \notin Digits]

\* A deployTask call the claim is about: the class argument names one of the
\* classes 1..8, the task's folder exists, and the class holds no Task of that
\* (truncated) name yet
IsFreshDeploy(doc, taskName, taskClass, folderKind) ==
    /\ folderKind # "NoDir"
    /\ \E i \in 1..Len(taskClass) : taskClass[i] \in Digits
    /\ FirstDigit(taskClass) \in {"1", "2", "3", "4", "5", "6", "7", "8"}
    /\ \A i \in RootNodes(doc, "TaskClass", <<"C", "y", "c", "l", "i", "c", "#", FirstDigit(taskClass)>>) :
          \A j \in 1..Len(doc.kids[i].kids) : doc.kids[i].kids[j].name # FirstTen(taskName)

\* C5: deployTask for a task not yet deployed appends exactly one Task element,
\* named by the first 10 characters of the task name, under the TaskClass node
\* Cyclic#N of the class argument's digit N, and changes no other node.
C5_DeployTaskAppends ==
    [][\A c \in TaskCalls :
          (/\ IsTree(swDoc)
           /\ IsFreshDeploy(swDoc, c[1], c[2], c[3])
           /\ deployTask(c[1], c[2], c[3])) =>
             /\ IsTree(swDoc')
             /\ Len(swDoc'.kids) = Len(swDoc.kids)
             /\ \E i \in RootNodes(swDoc, "TaskClass", <<"C", "y", "c", "l", "i", "c", "#", FirstDigit(c[2])>>) :
                   /\ Len(swDoc'.kids[i].kids) = Len(swDoc.kids[i].kids) + 1
                   /\ SubSeq(swDoc'.kids[i].kids, 1, Len(swDoc.kids[i].kids)) = swDoc.kids[i].kids
                   /\ swDoc'.kids[i].kids[Len(swDoc'.kids[i].kids)].tag = "Task"
                   /\ swDoc'.kids[i].kids[Len(swDoc'.kids[i].kids)].name = FirstTen(c[1])
                   /\ [swDoc'.kids[i] EXCEPT !.kids = <<>>] = [swDoc.kids[i] EXCEPT !.kids = <<>>]
                   /\ \A j \in 1..Len(swDoc.kids) : j # i => swDoc'.kids[j] = swDoc.kids[j]
      ]_vars

\* A 19-character task is deployed under Cyclic#3 as "VeryLongTa", a 4-character
\* one under Cyclic#1 with its whole name
C5_Witness ==
    /\ IsTree(swDoc)
    /\ swLast = [op |-> "deployTask", outcome |-> "appended"]
    /\ \E i \in RootNodes(swDoc, "TaskClass", Cyclic(3)) :
          swDoc.kids[i].kids = <<Element("Task", FALSE, <<"V", "e", "r", "y", "L", "o", "n", "g", "T", "a">>, <<>>)>>
    /\ \E i \in RootNodes(swDoc, "TaskClass", Cyclic(1)) :
          swDoc.kids[i].kids = <<Element("Task", FALSE, <<"P", "u", "m", "p">>, <<>>)>>

\* C7: a loaded table holds exactly one TaskClass node for each of Cyclic#1 ..
\* Cyclic#8, 8 in total, and exactly one Libraries node, whatever the file lacked
\* and whatever was deployed since.
C7_RootNodes ==
    IsTree(swDoc) =>
        /\ \A n \in 1..8 : Cardinality(RootNodes(swDoc, "TaskClass", Cyclic(n))) = 1
        /\ Cardinality({i \in 1..Len(swDoc.kids) : swDoc.kids[i].tag = "TaskClass"}) = 8
        /\ Cardinality({i \in 1..Len(swDoc.kids) : swDoc.kids[i].tag = "Libraries"}) = 1

\* A file that lacked the Libraries node and six task classes, after a library
\* and a task were deployed
C7_Witness ==
    /\ IsTree(swDoc)
    /\ Cardinality(swAdded) = 7
    /\ swLast = [op |-> "deployTask", outcome |-> "appended"]
    /\ \E i \in RootNodes(swDoc, "Libraries", <<>>) : Len(swDoc.kids[i].kids) = 1
    /\ \E i \in RootNodes(swDoc, "TaskClass", Cyclic(3)) : Len(swDoc.kids[i].kids) = 1

----------------------------------------------------------------------------
(* Package *)

\* The directory items the model lists at most, the manifest file not counted
MaxDirItems == 3
\* The entries of the manifests the model starts from, at most
MaxPkgEntries == 3

\* os.path.split(self.path)[1]: the manifest file
pkgFileName == <<"P", "a", "c", "k", "a", "g", "e", ".", "p", "k", "g">>

\* The items a package directory may hold, and getPkgType of each: a file, a
\* file, a folder without .lby or .prg
itemA == <<"a">>
itemB == <<"b">>
itemC == <<"c">>
PackageItems == {itemA, itemB, itemC}

\* The items a library directory may hold: its manifest, a source file, a
\* sub-folder, the folder of binaries of a target, and a file named .lby
lbyFileName == <<"I", "E", "C", ".", "l", "b", "y">>
itemF == <<"f">>
itemP == <<"p">>
itemSG4 == <<"S", "G", "4">>
itemDotLby == <<".", "l", "b", "y">>
LibraryItems == {itemF, itemP, itemSG4, itemDotLby}

\* getPkgType of an item that exists: the folders of the model hold no .lby and
\* no .prg
getPkgType(item) == IF item \in {itemC, itemP, itemSG4} THEN "Package" ELSE "File"

\* The package directory (Package.dirPath) and a directory outside of it
pkgDirPath == <<"/", "p">>
extDirPath == <<"/", "x">>

\* os.path.join(dir, name), kept as its two parts
Path(dir, name) == [dir |-> dir, name |-> name]

\* os.path.abspath of a path
abspath(path) == path.dir \o <<"/">> \o path.name

\* Package._createElement, lines 1047-1065, for a path that exists: an
\* unqualified Object element with the Type of the item, the Reference attribute
\* when asked for, and the absolute path or the base name as text
_createElement(path, reference) ==
    [text |-> IF reference THEN abspath(path) ELSE path.name,
     type |-> getPkgType(path.name),
     q |-> FALSE,
     reference |-> reference]

\* Package._removePkgObject, lines 1028-1030: the loop removes from the list it
\* iterates, by position: after a removal at position i the element that moved to
\* i is not visited
RECURSIVE RemoveLoop(_, _, _)
RemoveLoop(entries, i, name) ==
    IF i > Len(entries) THEN entries
    ELSE IF entries[i].text = name
    THEN RemoveLoop(RemoveAt(entries, i), i + 1, name)
    ELSE RemoveLoop(entries, i + 1, name)

_removePkgObject(entries, name) == RemoveLoop(entries, 1, name)

\* Package.synchPackageFile, lines 976-980: the loop over self.objects, which
\* _removePkgObject shortens while the loop runs. The result: the entries left, the
\* keys of objsText, and the manifests written to the file on the way
\* (_removePkgObject ends with self.write(), line 1031).
RECURSIVE SynchRemove(_, _, _, _, _)
SynchRemove(entries, i, items, objsText, writes) ==
    IF i > Len(entries) THEN [entries |-> entries, objsText |-> objsText, writes |-> writes]
    ELSE IF entries[i].text \notin Range(items)
    THEN LET left == _removePkgObject(entries, entries[i].text)
         IN SynchRemove(left, i + 1, items, objsText, Append(writes, left))
    ELSE SynchRemove(entries, i + 1, items, objsText \cup {entries[i].text}, writes)

\* Package.synchPackageFile, lines 983-986: the loop over the directory items;
\* _addPkgObject ends with self.write() (line 1044)
RECURSIVE SynchAdd(_, _, _, _, _)
SynchAdd(entries, items, k, objsText, writes) ==
    IF k > Len(items) THEN [entries |-> entries, writes |-> writes]
    ELSE IF items[k] = pkgFileName \/ items[k] \in objsText
    THEN SynchAdd(entries, items, k + 1, objsText, writes)
    ELSE LET more == Append(entries, _createElement(Path(pkgDirPath, items[k]), FALSE))
         IN SynchAdd(more, items, k + 1, objsText, Append(writes, more))

\* Package.synchPackageFile: the entries it leaves and the manifests it writes,
\* the last one by the self.write() of line 988
SynchPackageRun(entries, items) ==
    LET r == SynchRemove(entries, 1, items, {}, <<>>)
        a == SynchAdd(r.entries, items, 1, r.objsText, r.writes)
    IN [entries |-> a.entries, writes |-> Append(a.writes, a.entries)]

SynchPackage(entries, items) == SynchPackageRun(entries, items).entries

\* The sequences over a set, up to a length
RECURSIVE SeqsUpTo(_, _)
SeqsUpTo(S, n) ==
    IF n = 0 THEN {<<>>}
    ELSE LET shorter == SeqsUpTo(S, n - 1)
         IN shorter \cup {Append(t, x) : t \in shorter, x \in S}

\* The listings of a directory: its items in any enumeration order
Listings(S, n) == {t \in SeqsUpTo(S, n) : Cardinality(Range(t)) = Len(t)}

\* A loaded package: the manifest file and any items in its directory, and a
\* manifest with any entries, each parsed (qualified when the document has a namespace)
InitPackage ==
    /\ InitIdleExport
    /\ InitIdleBinary
    /\ InitIdleBuild
    /\ InitIdleScript
    /\ InitIdleDoc
    /\ InitIdleInfo
    /\ InitIdleDeploy
    /\ InitIdleLibrary
    /\ \E ns \in BOOLEAN, names \in SeqsUpTo(PackageItems, MaxPkgEntries) :
          pkgDoc = [ns |-> ns,
                    entries |-> [i \in 1..Len(names) |->
                                    [text |-> names[i], type |-> getPkgType(names[i]),
                                     q |-> ns, reference |-> FALSE]]]
    /\ \E l \in Listings(PackageItems, MaxDirItems) : pkgDir = <<pkgFileName>> \o l
    /\ pkgLast = [op |-> "none"]

\* Package.synchPackageFile: lines 967-990. run counts the runs since the
\* directory last changed.
synchPackageFile ==
    /\ UNCHANGED notPackageVars
    /\ pkgDoc' = [pkgDoc EXCEPT !.entries = SynchPackage(@, pkgDir)]
    /\ pkgLast' = [op |-> "synchPackageFile",
                   run |-> IF pkgLast.op = "synchPackageFile" THEN 2 ELSE 1,
                   changed |-> pkgDoc' # pkgDoc,
                   writes |-> SynchPackageRun(pkgDoc.entries, pkgDir).writes]
    /\ UNCHANGED pkgDir

\* The directory changes under the package: an item appears
ItemCreated(item) ==
    /\ UNCHANGED notPackageVars
    /\ item \notin Range(pkgDir)
    /\ Len(pkgDir) <= MaxDirItems
    /\ pkgDir' = Append(pkgDir, item)
    /\ pkgLast' = [op |-> "filesystem"]
    /\ UNCHANGED pkgDoc

\* The directory changes under the package: an item is deleted
ItemDeleted(item) ==
    /\ UNCHANGED notPackageVars
    /\ item \in Range(pkgDir)
    /\ pkgDir' = SelectSeq(pkgDir, LAMBDA x : x # item)
    /\ pkgLast' = [op |-> "filesystem"]
    /\ UNCHANGED pkgDoc

\* Package.addObject: lines 992-1002, with _addPkgObject, which addObject calls
\* without the reference flag. Every item of the model exists in the directory
\* outside; shutil.copyfile overwrites, shutil.copytree raises FileExistsError on
\* an existing destination; getPkgType raises FileNotFoundError for a path that
\* does not exist.
addObject(path, reference) ==
    /\ UNCHANGED notPackageVars
    /\ Len(pkgDoc.entries) < MaxPkgEntries
    /\ LET newPath == Path(pkgDirPath, path.name)
           copies == path.dir # pkgDirPath /\ ~reference
           present == path.name \in Range(pkgDir)
       IN IF copies /\ present /\ getPkgType(path.name) # "File"
          THEN /\ pkgLast' = [op |-> "addObject", path |-> path, reference |-> reference,
                              outcome |-> "FileExistsError", copied |-> FALSE, appended |-> 0]
               /\ UNCHANGED <<pkgDir, pkgDoc>>
          ELSE IF ~copies /\ ~present
          THEN /\ pkgLast' = [op |-> "addObject", path |-> path, reference |-> reference,
                              outcome |-> "FileNotFoundError", copied |-> FALSE, appended |-> 0]
               /\ UNCHANGED <<pkgDir, pkgDoc>>
          ELSE /\ pkgDir' = IF present THEN pkgDir ELSE Append(pkgDir, path.name)
               /\ pkgDoc' = [pkgDoc EXCEPT !.entries = Append(@, _createElement(newPath, FALSE))]
               /\ pkgLast' = [op |-> "addObject", path |-> path, reference |-> reference,
                              outcome |-> "None", copied |-> copies, appended |-> 1]

\* Package.addEmptyPackage: lines 1004-1013. os.mkdir raises FileExistsError when
\* the directory holds the name; the new folder is empty, so its Type is Package.
addEmptyPackage(name) ==
    /\ UNCHANGED notPackageVars
    /\ Len(pkgDoc.entries) < MaxPkgEntries
    /\ getPkgType(name) = "Package"
    /\ IF name \in Range(pkgDir)
       THEN /\ pkgLast' = [op |-> "addEmptyPackage", name |-> name, outcome |-> "FileExistsError"]
            /\ UNCHANGED <<pkgDir, pkgDoc>>
       ELSE /\ pkgDir' = Append(pkgDir, name)
            /\ pkgDoc' = [pkgDoc EXCEPT
                             !.entries = Append(@, _createElement(Path(pkgDirPath, name), FALSE))]
            /\ pkgLast' = [op |-> "addEmptyPackage", name |-> name, outcome |-> "None"]

\* Package.removeObject: lines 1015-1025
removeObject(name) ==
    /\ UNCHANGED notPackageVars
    /\ pkgDir' = SelectSeq(pkgDir, LAMBDA x : x # name)
    /\ pkgDoc' = [pkgDoc EXCEPT !.entries = _removePkgObject(@, name)]
    /\ pkgLast' = [op |-> "removeObject", name |-> name]

NextPackage ==
    \/ synchPackageFile
    \/ \E dir \in {pkgDirPath, extDirPath}, name \in PackageItems, reference \in BOOLEAN :
          addObject(Path(dir, name), reference)
    \/ \E name \in PackageItems : addEmptyPackage(name)
    \/ \E name \in PackageItems : removeObject(name)
    \/ \E item \in PackageItems : ItemCreated(item)
    \/ \E item \in PackageItems : ItemDeleted(item)

SpecPackage == InitPackage /\ [][NextPackage]_vars

----------------------------------------------------------------------------
(* Library.synchronize *)

\* The entries of the library manifests the model starts from, at most
MaxLibEntries == 2

dot == "."

\* os.path.splitext(item)[1]: from the last dot on, unless only dots precede it
NoExtension(item) == <<>>

splitext(item) ==
    LET dots == {i \in 1..Len(item) : item[i] = dot}
    IN IF dots = {} THEN <<>>
       ELSE LET dotIndex == CHOOSE i \in dots : \A j \in dots : j <= i
            IN IF \E j \in 1..(dotIndex - 1) : item[j] # dot
               THEN SubSeq(item, dotIndex, Len(item))
               ELSE <<>>

\* Library._createPkgElement: an unqualified element with the item's Type and
\* its name as text
_createPkgElement(item, tag) ==
    [tag |-> tag, q |-> FALSE, text |-> item, type |-> getPkgType(item)]

\* Library._convertXmlTag, were it to retag the list element only
ConvertListOnly(lib, fromTag, toTag) ==
    [doc |-> IF lib.doc.listTag = fromTag THEN [lib.doc EXCEPT !.listTag = toTag] ELSE lib.doc,
     tags |-> [_xmlTag |-> toTag, _xmlTagChild |-> IF toTag = "Objects" THEN "Object" ELSE "File"]]

\* Library._convertXmlTag: every element found by findall(fromTag) and its
\* children are retagged, with the namespace prefix; the cached tags follow
_convertXmlTag(lib, fromTag, toTag) ==
    LET childTag == IF toTag = "Objects" THEN "Object" ELSE "File"
        found == lib.doc.listTag = fromTag
        converted == [i \in 1..Len(lib.doc.entries) |->
                         [lib.doc.entries[i] EXCEPT
                             !.tag = childTag,
                             !.q = lib.doc.ns,
                             !.type = IF toTag = "Objects" THEN "File" ELSE @]]
    IN [doc |-> IF found
                THEN [lib.doc EXCEPT !.listTag = toTag, !.entries = converted]
                ELSE lib.doc,
        tags |-> [_xmlTag |-> toTag, _xmlTagChild |-> childTag]]

\* Library._addObjectElement
_addObjectElement(lib, item) ==
    LET element == _createPkgElement(item, lib.tags._xmlTagChild)
        appended == [lib EXCEPT !.doc.entries = Append(@, element)]
    IN IF element.type = "Package" /\ lib.tags._xmlTag # "Objects"
       THEN _convertXmlTag(appended, lib.tags._xmlTag, "Objects")
       ELSE appended

\* Library.synchronize, lines 500-504: the loop over the directory items
RECURSIVE AddUnused(_, _, _, _)
AddUnused(lib, items, k, usedItems) ==
    IF k > Len(items) THEN lib
    ELSE IF /\ items[k] \notin usedItems
            /\ splitext(items[k]) # <<".", "l", "b", "y">>
            /\ items[k] \notin {<<"S", "G", "4">>, <<"S", "G", "3">>, <<"S", "G", "C">>}
    THEN AddUnused(_addObjectElement(lib, items[k]), items, k + 1, usedItems)
    ELSE AddUnused(lib, items, k + 1, usedItems)

\* Library.synchronize, lines 489-498: the entries to remove are collected first
\* and removed after the loop
SynchLibrary(lib, items) ==
    LET kept == SelectSeq(lib.doc.entries, LAMBDA obj : obj.text \in Range(items))
        usedItems == {kept[i].text : i \in 1..Len(kept)}
    IN AddUnused([lib EXCEPT !.doc.entries = kept], items, 1, usedItems)

\* What ET.parse gives for an entry of a manifest: a File has no Type
ParsedEntry(ns, listTag, name) ==
    [tag |-> IF listTag = "Objects" THEN "Object" ELSE "File",
     q |-> ns,
     text |-> name,
     type |-> IF listTag = "Objects" THEN getPkgType(name) ELSE ""]

\* The names the manifests of the model list
ListedNames == {itemF, itemP, itemSG4}

\* A loaded library: the manifest and any items in its directory, a manifest
\* with a Files or an Objects element of any entries, and the tags
\* Library.__init__ caches from it
InitLibrary ==
    /\ InitIdleExport
    /\ InitIdleBinary
    /\ InitIdleBuild
    /\ InitIdleScript
    /\ InitIdleDoc
    /\ InitIdleInfo
    /\ InitIdleDeploy
    /\ InitIdlePackage
    /\ \E ns \in BOOLEAN, listTag \in {"Files", "Objects"},
          names \in SeqsUpTo(ListedNames, MaxLibEntries) :
          /\ libDoc = [ns |-> ns, listTag |-> listTag,
                       entries |-> [i \in 1..Len(names) |-> ParsedEntry(ns, listTag, names[i])]]
          /\ libTags = [_xmlTag |-> listTag,
                        _xmlTagChild |-> IF listTag = "Objects" THEN "Object" ELSE "File"]
    /\ \E l \in Listings(LibraryItems, MaxDirItems) : libDir = <<lbyFileName>> \o l
    /\ libLast = [op |-> "none"]

\* Library.synchronize: lines 480-507. run counts the runs since the directory
\* last changed.
synchronize ==
    /\ UNCHANGED notLibraryVars
    /\ LET after == SynchLibrary([doc |-> libDoc, tags |-> libTags], libDir)
           stale == SelectSeq(libDoc.entries, LAMBDA obj : obj.text \notin Range(libDir))
       IN /\ libDoc' = after.doc
          /\ libTags' = after.tags
          /\ libLast' = [op |-> "synchronize",
                         run |-> IF libLast.op = "synchronize" THEN 2 ELSE 1,
                         changed |-> after.doc # libDoc,
                         converted |-> after.tags # libTags,
                         writes |-> <<after.doc>>,
                         removed |-> Len(stale),
                         added |-> Len(after.doc.entries) - (Len(libDoc.entries) - Len(stale))]
    /\ UNCHANGED libDir

\* The directory changes under the library: an item appears
LibraryItemCreated(item) ==
    /\ UNCHANGED notLibraryVars
    /\ item \notin Range(libDir)
    /\ Len(libDir) <= MaxDirItems
    /\ libDir' = Append(libDir, item)
    /\ libLast' = [op |-> "filesystem"]
    /\ UNCHANGED <<libDoc, libTags>>

\* The directory changes under the library: an item is deleted
LibraryItemDeleted(item) ==
    /\ UNCHANGED notLibraryVars
    /\ item \in Range(libDir)
    /\ libDir' = SelectSeq(libDir, LAMBDA x : x # item)
    /\ libLast' = [op |-> "filesystem"]
    /\ UNCHANGED <<libDoc, libTags>>

NextLibrary ==
    \/ synchronize
    \/ \E item \in LibraryItems : LibraryItemCreated(item)
    \/ \E item \in LibraryItems : LibraryItemDeleted(item)

SpecLibrary == InitLibrary /\ [][NextLibrary]_vars

----------------------------------------------------------------------------
(* Claims about synchronisation *)

\* The text of each entry, in document order
Texts(entries) == [i \in 1..Len(entries) |-> entries[i].text]

\* C8: when Package.synchPackageFile has run, the manifest has no entry whose
\* text is not an item of the directory, and it has an entry for every item of
\* the directory but the manifest file itself.
C8_SynchPackageFile ==
    pkgLast.op = "synchPackageFile" =>
        /\ \A i \in 1..Len(pkgDoc.entries) : pkgDoc.entries[i].text \in Range(pkgDir)
        /\ \A item \in Range(pkgDir) \ {pkgFileName} :
              \E i \in 1..Len(pkgDoc.entries) : pkgDoc.entries[i].text = item

\* C9: a synchronisation that follows a synchronisation, the directory
\* unchanged in between, leaves the manifest as the first one left it; for
\* Package.synchPackageFile and for Library.synchronize.
C9_SynchronizeIdempotent ==
    /\ (pkgLast.op = "synchPackageFile" /\ pkgLast.run = 2) => ~pkgLast.changed
    /\ (libLast.op = "synchronize" /\ libLast.run = 2) => ~libLast.changed

\* An item name with the .lby extension
HasLbyExtension(item) ==
    /\ Len(item) > 4
    /\ SubSeq(item, Len(item) - 3, Len(item)) = <<".", "l", "b", "y">>
    /\ \E j \in 1..(Len(item) - 4) : item[j] # "."

\* C10: Library.synchronize removes exactly the entries whose text is not an
\* item of the directory, keeps the others in their order, and appends after
\* them one entry for each item of the directory that no entry names, in the
\* order of the directory listing, leaving out the items with the .lby
\* extension and the items SG4, SG3 and SGC.
C10_LibrarySynchronize ==
    [][synchronize =>
          LET listed == Texts(libDoc.entries)
              surviving == SelectSeq(listed, LAMBDA t : t \in Range(libDir))
              missing == SelectSeq(libDir, LAMBDA item :
                              /\ item \notin Range(listed)
                              /\ ~HasLbyExtension(item)
                              /\ item \notin {<<"S", "G", "4">>, <<"S", "G", "3">>, <<"S", "G", "C">>})
          IN Texts(libDoc'.entries) = surviving \o missing]_vars

\* A synchronisation that removed a stale entry, kept one and appended two,
\* in a directory that holds the manifest, which no entry names
C10_Witness ==
    /\ libLast.op = "synchronize"
    /\ libLast.removed >= 1
    /\ libLast.added >= 2
    /\ Len(libDoc.entries) >= 3
    /\ lbyFileName \in Range(libDir)
    /\ lbyFileName \notin Range(Texts(libDoc.entries))

----------------------------------------------------------------------------
(* Claims about the Files-to-Objects conversion *)

\* The list tag, the child tags and the cached tag names agree
TagsAgree(doc, tags) ==
    /\ tags._xmlTag = doc.listTag
    /\ tags._xmlTagChild = (IF doc.listTag = "Objects" THEN "Object" ELSE "File")
    /\ \A i \in 1..Len(doc.entries) : doc.entries[i].tag = tags._xmlTagChild

\* A step of Library.synchronize that adds a Package-kind object to a library
\* whose list is Files-typed
AddsPackageToFiles ==
    /\ synchronize
    /\ libDoc.listTag = "Files"
    /\ \E i \in 1..Len(libDoc'.entries) :
          /\ libDoc'.entries[i].text \notin Range(Texts(libDoc.entries))
          /\ getPkgType(libDoc'.entries[i].text) = "Package"

\* C11: when a Package-kind object is added to a library whose list is
\* Files-typed, the list element is tagged Objects afterwards, every child is
\* tagged Object and has a Type, none is left tagged File, and the cached tag
\* names are Objects / Object in the same step; in every state the list tag, the
\* child tags and the cached names agree.
C11_ConversionAtomic ==
    /\ [][AddsPackageToFiles =>
            /\ libDoc'.listTag = "Objects"
            /\ \A i \in 1..Len(libDoc'.entries) :
                  /\ libDoc'.entries[i].tag = "Object"
                  /\ libDoc'.entries[i].type # ""
            /\ libTags' = [_xmlTag |-> "Objects", _xmlTagChild |-> "Object"]]_vars
    /\ [] TagsAgree(libDoc, libTags)

\* A synchronisation converted a Files-typed list that held an entry before
C11_Witness ==
    /\ libLast.op = "synchronize"
    /\ libLast.converted
    /\ libLast.added >= 1
    /\ Len(libDoc.entries) > libLast.added
    /\ libDoc.listTag = "Objects"

----------------------------------------------------------------------------
(* Claims about export failures *)

\* The entries of an aggregate that name a library
EntriesOf(info, lib) ==
    Cardinality({i \in 1..Len(info.success) : info.success[i].name = lib})
    + Cardinality({i \in 1..Len(info.failed) : info.failed[i].name = lib})

\* C12: a FileNotFoundError or FileExistsError raised while Library.export
\* removes, copies or renames does not leave export: it is held by the returned
\* LibExportInfo, and exportLibraries goes on with the next selected library, so
\* that its aggregate holds exactly one entry, in success or in failed, for each
\* library exported so far, and for each selected library when it returns.
C12_ExportCaptures ==
    (call.op = "exportLibraries" /\ pc \in {"batch", "returned"}) =>
        /\ batchIdx - 1 = Len(exportLog)
        /\ \A k \in 1..Len(exportLibs) :
              EntriesOf(result, exportLibs[k]) = (IF k < batchIdx THEN 1 ELSE 0)
        /\ Len(result.success) + Len(result.failed) = batchIdx - 1
        /\ \A i \in 1..Len(result.failed) :
              result.failed[i].exception \in {"FileNotFoundError", "FileExistsError"}
        /\ \A i \in 1..Len(result.success) : result.success[i].exception = "None"
        /\ pc = "returned" => batchIdx - 1 = Len(exportLibs)

\* A batch of three libraries returned after the first failed with
\* FileExistsError, the second with FileNotFoundError and the third succeeded
C12_Witness ==
    /\ call.op = "exportLibraries"
    /\ pc = "returned"
    /\ Len(exportLibs) = 3
    /\ Len(result.failed) = 2
    /\ result.failed[1] = LibExportInfo(exportLibs[1], "FileExistsError")
    /\ result.failed[2] = LibExportInfo(exportLibs[2], "FileNotFoundError")
    /\ result.success = <<LibExportInfo(exportLibs[3], "None")>>

\* C13: whatever exception one library's export raises, it is held by that
\* library's entry in the failed list, and exportLibraries is not aborted: no
\* exception leaves the batch, and every library whose export was attempted has
\* its entry in the aggregate.
C13_AnyExceptionCaptured ==
    call.op = "exportLibraries" =>
        /\ pc # "raised"
        /\ \A k \in 1..Len(exportLog) : EntriesOf(result, exportLog[k]) = 1

----------------------------------------------------------------------------
(* ProjectExportInfo on its own *)

\* The LibExportInfo objects the model holds at most
MaxInfos == 3

\* The LibExportInfo objects handed to the aggregates
SomeInfos ==
    { LibExportInfo(nA, "None"), LibExportInfo(nB, "FileNotFoundError"),
      LibExportInfo(nC, "None") }

\* The number of LibExportInfo objects an aggregate holds
SizeOf(info) == Len(info.success) + Len(info.failed)

\* infoMain.addLibInfo(libInfo)
AddLibInfo(libInfo) ==
    /\ UNCHANGED notInfoVars
    /\ Len(infoLog) < MaxInfos
    /\ infoMain' = addLibInfo(infoMain, libInfo)
    /\ infoLog' = Append(infoLog, libInfo)
    /\ infoCalls' = [infoCalls EXCEPT !.added = @ + 1]
    /\ UNCHANGED infoOther

\* infoOther.addLibInfo(libInfo)
AddLibInfoToOther(libInfo) ==
    /\ UNCHANGED notInfoVars
    /\ SizeOf(infoOther) < MaxInfos - 1
    /\ infoOther' = addLibInfo(infoOther, libInfo)
    /\ UNCHANGED <<infoMain, infoLog, infoCalls>>

\* infoMain.extend(infoOther), or infoMain.extend(infoMain): the successes of the
\* merged aggregate are appended first, then its failures
Extend(withItself) ==
    /\ UNCHANGED notInfoVars
    /\ LET other == IF withItself THEN infoMain ELSE infoOther IN
          /\ SizeOf(other) > 0
          /\ Len(infoLog) + SizeOf(other) <= MaxInfos
          /\ infoMain' = extend(infoMain, other)
          /\ infoLog' = infoLog \o other.success \o other.failed
          /\ infoCalls' = [infoCalls EXCEPT !.merged = @ + SizeOf(other)]
    /\ UNCHANGED infoOther

\* infoOther = ProjectExportInfo()
NewOther ==
    /\ UNCHANGED notInfoVars
    /\ infoOther # NewExportInfo
    /\ infoOther' = NewExportInfo
    /\ UNCHANGED <<infoMain, infoLog, infoCalls>>

InitInfo ==
    /\ InitIdleExport
    /\ InitIdleBinary
    /\ InitIdleBuild
    /\ InitIdleScript
    /\ InitIdleDoc
    /\ InitIdleDeploy
    /\ InitIdlePackage
    /\ InitIdleLibrary
    /\ infoMain = NewExportInfo
    /\ infoOther = NewExportInfo
    /\ infoLog = <<>>
    /\ infoCalls = [added |-> 0, merged |-> 0]

NextInfo ==
    \/ \E libInfo \in SomeInfos : AddLibInfo(libInfo)
    \/ \E libInfo \in SomeInfos : AddLibInfoToOther(libInfo)
    \/ \E withItself \in BOOLEAN : Extend(withItself)
    \/ NewOther

SpecInfo == InitInfo /\ [][NextInfo]_vars

\* C14: after any sequence of addLibInfo and extend calls every LibExportInfo
\* given to a ProjectExportInfo is in exactly one of success and failed, in
\* success exactly when it holds no exception; each list keeps the order in
\* which its objects were given; and the two lists together hold as many
\* objects as were added directly plus as many as the merged aggregates held.
C14_Partition ==
    /\ infoMain.success = SelectSeq(infoLog, LAMBDA i : i.exception = "None")
    /\ infoMain.failed = SelectSeq(infoLog, LAMBDA i : i.exception # "None")
    /\ \A i \in 1..Len(infoMain.success) : infoMain.success[i].exception = "None"
    /\ \A i \in 1..Len(infoMain.failed) : infoMain.failed[i].exception # "None"
    /\ SizeOf(infoMain) = infoCalls.added + infoCalls.merged

\* An aggregate that was given one object directly and two, a success and a
\* failure, with a merged aggregate
C14_Witness ==
    /\ infoCalls = [added |-> 1, merged |-> 2]
    /\ Len(infoMain.success) = 2
    /\ Len(infoMain.failed) = 1
    /\ infoMain.success[1] # infoMain.success[2]

----------------------------------------------------------------------------
(* xmlAsFile: read and write *)

\* The entries of the list element of the manifests the model starts from, at most
MaxDocEntries == 2
\* The writes the model counts, at most
MaxWrites == 2

\* The namespace of a package manifest, and none
nsPackage == "http://br-automation.co.at/AS/Package"
nsNone == ""

\* An element of a tree: ET's tag "{ns}tag" as the pair ns, tag; its attributes,
\* in order; its text ("None": no text, "blank": white space, "indent": the white
\* space _indentXml writes, or character data); its children
XmlElement(ns, tag, attrib, text, kids) ==
    [ns |-> ns, tag |-> tag, attrib |-> attrib, text |-> text, kids |-> kids]

\* An element of a file: its name as written, without prefix
FileElement(tag, attrib, text, kids) ==
    [tag |-> tag, attrib |-> attrib, text |-> text, kids |-> kids]

\* ET.parse, for the elements below the root: every name lies in the default
\* namespace the root declares
RECURSIVE ParseElements(_, _)
ParseElements(kids, xmlns) ==
    [i \in 1..Len(kids) |->
        XmlElement(xmlns, kids[i].tag, kids[i].attrib, kids[i].text,
                   ParseElements(kids[i].kids, xmlns))]

\* xmlAsFile.read: lines 270-274, for a file that exists
read(file) ==
    [kind |-> "Tree", ns |-> file.xmlns, tag |-> file.tag,
     kids |-> ParseElements(file.kids, file.xmlns)]

\* xmlAsFile._getASNamespace: the namespace part of the root's tag
_getASNamespace(tree) == tree.ns

\* not elem.text or not elem.text.strip()
IsBlank(text) == text \in {"None", "blank", "indent"}

\* xmlAsFile._indentXml, were it to lay out the text of every element
RECURSIVE IndentAll(_)
IndentAll(kids) ==
    [i \in 1..Len(kids) |->
        [kids[i] EXCEPT !.text = IF IsBlank(@) THEN "indent" ELSE @,
                        !.kids = IndentAll(@)]]

\* xmlAsFile._indentXml, lines 335-351, below the root: an element with children
\* gets the indentation as text when its text is blank; an element without
\* children keeps its text (its tail is not part of the model)
RECURSIVE _indentXml(_)
_indentXml(kids) ==
    [i \in 1..Len(kids) |->
        [kids[i] EXCEPT !.text = IF Len(kids[i].kids) > 0 /\ IsBlank(@) THEN "indent" ELSE @,
                        !.kids = _indentXml(@)]]

\* ElementTree.write after register_namespace('', ns): the names of the
\* registered namespace and the names without namespace are written without
\* prefix
RECURSIVE WriteElements(_)
WriteElements(kids) ==
    [i \in 1..Len(kids) |->
        FileElement(kids[i].tag, kids[i].attrib, kids[i].text, WriteElements(kids[i].kids))]

\* xmlAsFile.write: lines 276-284. The tree after the call, and the file.
write(tree) ==
    LET indented == [tree EXCEPT !.kids = _indentXml(@)]
    IN [tree |-> indented,
        file |-> [kind |-> "File", xmlns |-> _getASNamespace(tree), tag |-> tree.tag,
                  kids |-> WriteElements(indented.kids)]]

\* The Object elements of the manifests of the model: a file, a program, an
\* entry whose text is white space, an entry without text
ObjectLeaves ==
    { FileElement("Object", << <<"Type", "File">> >>, "a.var", <<>>),
      FileElement("Object", << <<"Type", "Program">>, <<"Language", "IEC">> >>, "Task", <<>>),
      FileElement("Object", << <<"Type", "File">> >>, "blank", <<>>),
      FileElement("Object", <<>>, "None", <<>>) }

\* The Dependencies element of the manifests of the model: none, an empty one,
\* one with a Dependency
DependencyLists ==
    { <<>>,
      << FileElement("Dependencies", <<>>, "None", <<>>) >>,
      << FileElement("Dependencies", <<>>, "indent",
            << FileElement("Dependency",
                  << <<"ObjectName", "AsBrStr">>, <<"FromVersion", "1.2">> >>, "None", <<>>) >>) >> }

\* The manifests of the model
ManifestFiles ==
    { [kind |-> "File", xmlns |-> xmlns, tag |-> "Package",
       kids |-> << FileElement("Objects", <<>>, text, leaves) >> \o dependencies]
      : xmlns \in {nsPackage, nsNone}, text \in {"None", "indent"},
        leaves \in SeqsUpTo(ObjectLeaves, MaxDocEntries), dependencies \in DependencyLists }

\* The element a caller appends: ET.Element('Object', ...), without namespace
NewObject == XmlElement(nsNone, "Object", << <<"Type", "File">> >>, "b.var", <<>>)

\* A manifest file, or none, and no object yet
InitDoc ==
    /\ InitIdleExport
    /\ InitIdleBinary
    /\ InitIdleBuild
    /\ InitIdleScript
    /\ InitIdleDeploy
    /\ InitIdlePackage
    /\ InitIdleLibrary
    /\ InitIdleInfo
    /\ docDisk \in ManifestFiles \cup {[kind |-> "NoFile"]}
    /\ docTree = [kind |-> "NoObject"]
    /\ docFirst = [kind |-> "NoObject"]
    /\ docLast = [op |-> "none"]

\* xmlAsFile(path): lines 261-268, without new_data. read raises
\* FileNotFoundError when there is no file, and no object is constructed.
OpenDoc ==
    /\ UNCHANGED notDocVars
    /\ docTree.kind = "NoObject"
    /\ IF docDisk.kind = "NoFile"
       THEN /\ docLast' = [op |-> "open", outcome |-> "FileNotFoundError"]
            /\ UNCHANGED <<docTree, docFirst>>
       ELSE /\ docTree' = read(docDisk)
            /\ docFirst' = read(docDisk)
            /\ docLast' = [op |-> "open", outcome |-> "None", writes |-> 0, mutated |-> FALSE]
    /\ UNCHANGED docDisk

\* xmlAsFile.write
WriteDoc ==
    /\ UNCHANGED notDocVars
    /\ docTree.kind = "Tree"
    /\ docTree' = write(docTree).tree
    /\ docDisk' = write(docTree).file
    /\ docLast' = [docLast EXCEPT !.op = "write", !.outcome = "None",
                                  !.writes = IF @ < MaxWrites THEN @ + 1 ELSE @]
    /\ UNCHANGED docFirst

\* xmlAsFile.read on a constructed object
ReadDoc ==
    /\ UNCHANGED notDocVars
    /\ docTree.kind = "Tree"
    /\ IF docDisk.kind = "NoFile"
       THEN /\ docLast' = [docLast EXCEPT !.op = "read", !.outcome = "FileNotFoundError"]
            /\ UNCHANGED docTree
       ELSE /\ docTree' = read(docDisk)
            /\ docLast' = [docLast EXCEPT !.op = "read", !.outcome = "None"]
    /\ UNCHANGED <<docDisk, docFirst>>

\* A caller appends an element to the first child of the root, in memory
AppendObject ==
    /\ UNCHANGED notDocVars
    /\ docTree.kind = "Tree"
    /\ Len(docTree.kids[1].kids) < MaxDocEntries
    /\ docTree' = [docTree EXCEPT !.kids[1].kids = Append(@, NewObject)]
    /\ docLast' = [docLast EXCEPT !.op = "append", !.outcome = "None", !.mutated = TRUE]
    /\ UNCHANGED <<docDisk, docFirst>>

\* The file is deleted under the object
FileDeleted ==
    /\ UNCHANGED notDocVars
    /\ docTree.kind = "Tree"
    /\ docDisk.kind = "File"
    /\ docDisk' = [kind |-> "NoFile"]
    /\ docLast' = [docLast EXCEPT !.op = "deleted", !.outcome = "None"]
    /\ UNCHANGED <<docTree, docFirst>>

NextDoc ==
    \/ OpenDoc
    \/ WriteDoc
    \/ ReadDoc
    \/ AppendObject
    \/ FileDeleted

SpecDoc == InitDoc /\ [][NextDoc]_vars

----------------------------------------------------------------------------
(* Claims about documents *)

\* The Object and Dependency elements of a tree, in document order: tag with
\* namespace, attributes and text of each
ObjectsAndDependencies(tree) ==
    [i \in 1..Len(tree.kids) |->
        [j \in 1..Len(tree.kids[i].kids) |->
            [ns |-> tree.kids[i].kids[j].ns, tag |-> tree.kids[i].kids[j].tag,
             attrib |-> tree.kids[i].kids[j].attrib, text |-> tree.kids[i].kids[j].text]]]

\* C15: a manifest that is loaded, written back without mutation and loaded
\* again has the same Object and Dependency elements, in the same order, with
\* the same tag, attributes and text, and the same namespace; and whatever is
\* done to a loaded document, its namespace, in memory and in the file it
\* writes, stays the one it was loaded with.
C15_RoundTrip ==
    docTree.kind = "Tree" =>
        /\ _getASNamespace(docTree) = _getASNamespace(docFirst)
        /\ docDisk.kind = "File" => docDisk.xmlns = _getASNamespace(docFirst)
        /\ ~docLast.mutated =>
              ObjectsAndDependencies(docTree) = ObjectsAndDependencies(docFirst)

\* A manifest in the package namespace, with an entry of white-space text and a
\* Dependency, was loaded, written twice without mutation and loaded again
C15_Witness ==
    /\ docTree.kind = "Tree"
    /\ docLast.op = "read"
    /\ docLast.outcome = "None"
    /\ docLast.writes = 2
    /\ ~docLast.mutated
    /\ _getASNamespace(docTree) = nsPackage
    /\ Len(docTree.kids) = 2
    /\ Len(docTree.kids[2].kids) = 1
    /\ \E j \in 1..Len(docTree.kids[1].kids) : docTree.kids[1].kids[j].text = "blank"

\* C16: the constructor of a document whose path does not exist raises
\* FileNotFoundError, for xmlAsFile and for SwDeploymentTable alike; the caller
\* never holds a document object that has no tree.
C16_MissingPathFails ==
    /\ docTree.kind \in {"NoObject", "Tree"}
    /\ (docLast.op = "open" /\ docDisk.kind = "NoFile") => docLast.outcome = "FileNotFoundError"
    /\ swDoc.kind \in {"NoObject", "Tree"}
    /\ (swLast.op = "load" /\ swDisk.kind = "NoFile") => swLast.outcome = "FileNotFoundError"

----------------------------------------------------------------------------
(* Claims about dependency resolution *)

\* The declared dependencies of a library that pass both ignore filters and
\* name no library of the project
UnknownDependencies(lib, ignores) ==
    {n \in Range(_checkIgnore(_checkIgnore(deps[lib], ignores), cacheIgnore)) :
        n \notin Range(libraries)}

\* C17: exportLibrary with dependencies raises when a declared dependency
\* passes both ignore filters and names no library of the project: it never
\* goes on to export a library whose dependencies it resolved and of which one
\* is unknown.
C17_UnknownDependencyRaises ==
    call.op = "exportLibrary" =>
        \A k \in 1..Len(exportLog) :
            (exportLog[k] # call.library \/ call.withDependencies) =>
                UnknownDependencies(exportLog[k], call.ignores) = {}

----------------------------------------------------------------------------
(* Claims about Package.addObject and Package.removeObject *)

\* C18: Package.addObject(path, reference=True) for an existing target outside
\* the package directory copies nothing into the package directory and appends
\* exactly one entry, marked as a reference, whose text is the absolute path of
\* the target.
C18_AddReference ==
    (pkgLast.op = "addObject" /\ pkgLast.reference /\ pkgLast.path.dir # pkgDirPath) =>
        /\ pkgLast.outcome = "None"
        /\ ~pkgLast.copied
        /\ pkgLast.appended = 1
        /\ Len(pkgDoc.entries) >= 1
        /\ pkgDoc.entries[Len(pkgDoc.entries)].reference
        /\ pkgDoc.entries[Len(pkgDoc.entries)].text = abspath(pkgLast.path)

\* C19: Package.removeObject(name) deletes the item name from the package
\* directory and removes every entry of the manifest whose text is name, also
\* when several entries have that text; the other items and the other entries
\* stay, in their order.
C19_RemoveObject ==
    [][\A name \in PackageItems :
          removeObject(name) =>
              /\ pkgDir' = SelectSeq(pkgDir, LAMBDA x : x # name)
              /\ pkgDoc'.entries = SelectSeq(pkgDoc.entries, LAMBDA e : e.text # name)
              /\ pkgDoc'.ns = pkgDoc.ns]_vars

\* C20: when a Package-kind object is added to a library whose list is
\* Files-typed, the conversion gives Type=File to the children that were there
\* before only: the added Package-kind object has Type=Package afterwards.
C20_NewPackageKeepsType ==
    [][AddsPackageToFiles =>
          \A i \in 1..Len(libDoc'.entries) :
              (/\ libDoc'.entries[i].text \notin Range(Texts(libDoc.entries))
               /\ getPkgType(libDoc'.entries[i].text) = "Package")
              => libDoc'.entries[i].type = "Package"]_vars

----------------------------------------------------------------------------
(* Claims about the order of the root children *)

\* C21: after a load that found some TaskClass nodes missing, the TaskClass nodes
\* stand among the root's children in the order Cyclic#1, ..., Cyclic#8, wherever
\* the children the file already had (a Libraries node included) stood.
C21_TaskClassesAscending ==
    ( /\ swLast = [op |-> "load", outcome |-> "loaded"]
      /\ \E n \in 1..NumTaskClasses : Cyclic(n) \in swAdded )
    => \A m, n \in 1..NumTaskClasses :
          m < n => \A i \in RootNodes(swDoc, "TaskClass", Cyclic(m)) :
                   \A j \in RootNodes(swDoc, "TaskClass", Cyclic(n)) : i < j

----------------------------------------------------------------------------
(* Claims about the writes of a synchronisation *)

\* C22: a synchronisation writes the manifest once, after all removals and
\* additions: the only manifest Package.synchPackageFile or Library.synchronize
\* writes to the file is the final one.
C22_WriteOnce ==
    /\ pkgLast.op = "synchPackageFile" => pkgLast.writes = <<pkgDoc.entries>>
    /\ libLast.op = "synchronize" => libLast.writes = <<libDoc>>

----------------------------------------------------------------------------
(* Claims about the build configurations of an export *)

\* C23: Project.exportLibraries exports every selected library with the
\* build-configuration list the caller supplied in buildConfigs, and with the
\* project's own configurations only when the caller supplied none.
C23_CallerConfigsUsed ==
    (call.op = "exportLibraries" /\ pc \in {"batch", "returned"}) =>
        /\ Len(exportConfigs) = Len(exportLog)
        /\ \A i \in 1..Len(exportConfigs) : exportConfigs[i] = call.buildConfigs.list

----------------------------------------------------------------------------
(* Claims about find and findall *)

\* Package.objectList: findall('Objects', 'Object'), the children of Objects with
\* the namespace-qualified tag, in document order
objectList(doc) == SelectSeq(doc.entries, LAMBDA e : e.q = doc.ns)

\* The Name of every LibraryObject below a Libraries node of the tree, qualified
\* or not
AllLibraryObjects(doc) ==
    {doc.kids[i].kids[j].name :
        <<i, j>> \in {p \in (1..Len(doc.kids)) \X (1..MaxEntries + 2) :
                        /\ doc.kids[p[1]].tag = "Libraries"
                        /\ p[2] <= Len(doc.kids[p[1]].kids)
                        /\ doc.kids[p[1]].kids[p[2]].tag = "LibraryObject"}}

\* C24: find and findall return every matching element of the tree, the elements
\* appended since the load included: SwDeploymentTable.libraries names every
\* LibraryObject of the tree and Package.objectList holds every Object entry.
C24_FindAllSeesAppended ==
    /\ IsTree(swDoc) => TableLibraries(swDoc) = AllLibraryObjects(swDoc)
    /\ objectList(pkgDoc) = pkgDoc.entries

----------------------------------------------------------------------------
(* Library._collectBinaryLibrary *)

\* The configurations a buildConfigs list holds, at most
MaxConfigs == 3

\* The configurations of the model: two of type sg4, two of type sg4_arm
cfgIntel == BuildConfig("Intel", "sg4", "X20CP1584")
cfgPanel == BuildConfig("Panel", "sg4", "APC910")
cfgArm == BuildConfig("Arm", "sg4_arm", "X20CP0484")
cfgArmB == BuildConfig("ArmB", "sg4_arm", "X20CP0410")
ConfigPool == {cfgIntel, cfgPanel, cfgArm, cfgArmB}

\* The types _collectBinaryLibrary collects
ConfigTypes == {"sg4", "sg4_arm"}

\* builds.get(type) of a type not registered
NoBuild == BuildConfig("", "", "")

\* The three files _collectConfigBinary copies, as their paths under Temp: the
\* path of Library.h does not depend on the configuration
BrFile(config) == [dir |-> "Objects", config |-> config.name, hardware |-> config.hardware, file |-> "Library.br"]
HFile == [dir |-> "Includes", config |-> "", hardware |-> "", file |-> "Library.h"]
AFile(config) == [dir |-> "Archives", config |-> config.name, hardware |-> config.hardware, file |-> "libLibrary.a"]

\* _collectConfigBinary, lines 649-651: the files in the order they are copied
ConfigArtifacts(config) == <<BrFile(config), HFile, AFile(config)>>

\* _collectBinaryLibrary, lines 533-534: a build is registered under its type
\* when the type has none yet
lastWins(builds, build) == [builds EXCEPT ![build.type] = build]

firstWins(builds, build) ==
    IF builds[build.type] = NoBuild THEN [builds EXCEPT ![build.type] = build] ELSE builds

\* _collectBinaryLibrary, lines 530-534: the loop over buildConfigs
RECURSIVE Builds(_, _, _)
Builds(buildConfigs, k, builds) ==
    IF k > Len(buildConfigs) THEN builds
    ELSE Builds(buildConfigs, k + 1, firstWins(builds, buildConfigs[k]))

\* _collectConfigBinary: shutil.copy2 of each file in turn into the folder; a
\* missing file raises FileNotFoundError and leaves the copies made so far
RECURSIVE _collectConfigBinary(_, _, _, _, _)
_collectConfigBinary(temp, config, k, folder, files) ==
    IF k > Len(ConfigArtifacts(config)) THEN [exception |-> "None", files |-> files]
    ELSE IF ConfigArtifacts(config)[k] \notin temp
    THEN [exception |-> "FileNotFoundError", files |-> files]
    ELSE _collectConfigBinary(temp, config, k + 1, folder,
            files \cup {[folder |-> folder, source |-> ConfigArtifacts(config)[k]]})

\* The buildConfigs lists: the configurations of the pool, none twice
ConfigLists == Listings(ConfigPool, MaxConfigs)

\* Library._collectBinaryLibrary, lines 524-552, as Library.export calls it:
\* copytree raises FileExistsError on an existing destination, and ignores every
\* folder of the library (ignoreFolders); then the artifacts of builds["sg4"] go
\* to SG4 and those of builds["sg4_arm"] to SG4/Arm.
_collectBinaryLibrary(buildConfigs) ==
    /\ UNCHANGED notBinaryVars
    /\ UNCHANGED binTemp
    /\ LET builds == Builds(buildConfigs, 1, [t \in ConfigTypes |-> NoBuild])
           sg4 == IF builds["sg4"] # NoBuild
                  THEN _collectConfigBinary(binTemp, builds["sg4"], 1, "SG4", {})
                  ELSE [exception |-> "None", files |-> {}]
           arm == IF sg4.exception = "None" /\ builds["sg4_arm"] # NoBuild
                  THEN _collectConfigBinary(binTemp, builds["sg4_arm"], 1, "SG4/Arm", sg4.files)
                  ELSE sg4
       IN IF binDest.exists
          THEN /\ binLast' = [op |-> "_collectBinaryLibrary", buildConfigs |-> buildConfigs,
                              exception |-> "FileExistsError"]
               /\ UNCHANGED binDest
          ELSE /\ binDest' = [exists |-> TRUE, files |-> arm.files]
               /\ binLast' = [op |-> "_collectBinaryLibrary", buildConfigs |-> buildConfigs,
                              exception |-> arm.exception]

\* A build of a configuration leaves its three artifacts under Temp
ConfigurationBuilt(config) ==
    /\ UNCHANGED notBinaryVars
    /\ binTemp' = binTemp \cup Range(ConfigArtifacts(config))
    /\ binTemp' # binTemp
    /\ binLast' = [op |-> "build"]
    /\ UNCHANGED binDest

\* The build output of a configuration is cleaned: its module and archive go
ConfigurationCleaned(config) ==
    /\ UNCHANGED notBinaryVars
    /\ binTemp' = binTemp \ {BrFile(config), AFile(config)}
    /\ binTemp' # binTemp
    /\ binLast' = [op |-> "clean"]
    /\ UNCHANGED binDest

\* Library.export with overwrite, lines 463-465: the destination is removed
DestinationRemoved ==
    /\ UNCHANGED notBinaryVars
    /\ binDest.exists
    /\ binDest' = [exists |-> FALSE, files |-> {}]
    /\ binLast' = [op |-> "rmtree"]
    /\ UNCHANGED binTemp

InitBinary ==
    /\ InitIdleExport
    /\ InitIdleBuild
    /\ InitIdleScript
    /\ InitIdleDoc
    /\ InitIdleInfo
    /\ InitIdleDeploy
    /\ InitIdlePackage
    /\ InitIdleLibrary
    /\ binTemp = {}
    /\ binDest = [exists |-> FALSE, files |-> {}]
    /\ binLast = [op |-> "none"]

NextBinary ==
    \/ \E buildConfigs \in ConfigLists : _collectBinaryLibrary(buildConfigs)
    \/ \E config \in ConfigPool : ConfigurationBuilt(config)
    \/ \E config \in ConfigPool : ConfigurationCleaned(config)
    \/ DestinationRemoved

SpecBinary == InitBinary /\ [][NextBinary]_vars

----------------------------------------------------------------------------
(* Claims about the binary export *)

\* The first configuration of a type in a list, by position; NoBuild if none
FirstOfType(buildConfigs, typ) ==
    LET at == {i \in 1..Len(buildConfigs) : buildConfigs[i].type = typ}
    IN IF at = {} THEN NoBuild
       ELSE buildConfigs[CHOOSE i \in at : \A j \in at : i <= j]

\* The folder the artifacts of a type are copied to
FolderOf(typ) == IF typ = "sg4" THEN "SG4" ELSE "SG4/Arm"

\* C25: a binary export takes the artifacts of each type (sg4, sg4_arm) from the
\* first configuration of that type in the list it is given, never from a later
\* one, and copies no artifact for a type without configuration in the list; an
\* export that succeeds has copied the three artifacts of each first configuration.
C25_FirstConfigOfTypeWins ==
    binLast.op = "_collectBinaryLibrary" /\ binLast.exception # "FileExistsError" =>
        \A typ \in ConfigTypes :
            LET first == FirstOfType(binLast.buildConfigs, typ)
                copied == {f.source : f \in {g \in binDest.files : g.folder = FolderOf(typ)}}
            IN /\ first = NoBuild => copied = {}
               /\ first # NoBuild => copied \subseteq Range(ConfigArtifacts(first))
               /\ (first # NoBuild /\ binLast.exception = "None")
                     => copied = Range(ConfigArtifacts(first))

\* An export that succeeded on a list of two sg4 configurations with an sg4_arm
\* configuration between them, while the artifacts of all of them and of another
\* sg4_arm configuration were there: the first of each type gave the artifacts
C25_Witness ==
    /\ binLast = [op |-> "_collectBinaryLibrary",
                  buildConfigs |-> <<cfgPanel, cfgArmB, cfgIntel>>, exception |-> "None"]
    /\ BrFile(cfgIntel) \in binTemp
    /\ BrFile(cfgArm) \in binTemp
    /\ [folder |-> "SG4", source |-> BrFile(cfgPanel)] \in binDest.files
    /\ [folder |-> "SG4/Arm", source |-> AFile(cfgArmB)] \in binDest.files

----------------------------------------------------------------------------
(* batchBuildAsProject *)

\* ASReturnCodes: the return codes of the build tool
ASReturnCodes == [ErrorsWarnings |-> 3, Errors |-> 2, Warnings |-> 1, None |-> 0]

ReturnCodes == {ASReturnCodes[k] : k \in DOMAIN ASReturnCodes}

\* The names of the configurations
ConfigNames == {config.name : config \in ConfigPool}

\* batchBuildAsProject, lines 103-111: the loop over the configurations. codes[k]
\* is the return code the build tool gives for the k-th configuration. The loop
\* returns the CompletedProcess of the first build whose code is above Warnings.
RECURSIVE BuildLoop(_, _, _, _)
BuildLoop(configurations, codes, k, runs) ==
    IF k > Len(configurations) THEN runs
    ELSE LET completedProcess == [configuration |-> configurations[k], returncode |-> codes[k]]
         IN IF completedProcess.returncode > ASReturnCodes["Warnings"]
            THEN Append(runs, completedProcess)
            ELSE BuildLoop(configurations, codes, k + 1, Append(runs, completedProcess))

\* batchBuildAsProject, lines 100-113, as Project.build (782-792) calls it with
\* its configNames: the value returned is the CompletedProcess of the last build
\* made; without configurations the name completedProcess is unbound at line 113
batchBuildAsProject(configurations, codes) ==
    /\ UNCHANGED notBuildVars
    /\ buildResult.op = "none"
    /\ buildRuns' = BuildLoop(configurations, codes, 1, <<>>)
    /\ buildResult' =
          IF buildRuns' = <<>>
          THEN [op |-> "batchBuildAsProject", configurations |-> configurations,
                outcome |-> "UnboundLocalError", returned |-> <<>>]
          ELSE [op |-> "batchBuildAsProject", configurations |-> configurations,
                outcome |-> "returned", returned |-> <<buildRuns'[Len(buildRuns')]>>]

\* The caller has taken the result, or the exception
BuildResultTaken ==
    /\ UNCHANGED notBuildVars
    /\ buildResult.op # "none"
    /\ buildRuns' = <<>>
    /\ buildResult' = [op |-> "none"]

InitBuild ==
    /\ InitIdleExport
    /\ InitIdleBinary
    /\ InitIdleScript
    /\ InitIdleDoc
    /\ InitIdleInfo
    /\ InitIdleDeploy
    /\ InitIdlePackage
    /\ InitIdleLibrary
    /\ buildRuns = <<>>
    /\ buildResult = [op |-> "none"]

NextBuild ==
    \/ \E configurations \in Listings(ConfigNames, MaxConfigs),
          codes \in [1..MaxConfigs -> ReturnCodes] :
          batchBuildAsProject(configurations, codes)
    \/ BuildResultTaken

SpecBuild == InitBuild /\ [][NextBuild]_vars

----------------------------------------------------------------------------
(* Claims about the batch build *)

\* C26: a batch build is best-effort: every configuration given is built, also
\* behind one whose build returned an error code, and the caller is given the
\* outcome of every configuration.
C26_BatchBuildBestEffort ==
    (buildResult.op = "batchBuildAsProject" /\ buildResult.outcome = "returned") =>
        /\ [k \in 1..Len(buildRuns) |-> buildRuns[k].configuration] = buildResult.configurations
        /\ buildResult.returned = buildRuns

----------------------------------------------------------------------------
(* The export scripts: CmdLineExportLib.py and ExportLibraries.py *)

\* What a step of a script outside the export engine leaves alone
notScriptVars ==
    <<deployVars, packageVars, libraryVars, infoVars, docVars, binaryVars, buildVars>>

\* The --configuration argument
ConfigurationArgs == { <<"Arm">>, <<"Intel", "Arm">>, <<"Nope">> }

\* CmdLineExportLib.main, lines 72-75: the project's configurations named on the
\* command line
libBuildConfig(configuration) ==
    SelectSeq(projectBuildConfigs, LAMBDA buildConfig : buildConfig.name \in Range(configuration))

\* The builds of a script stop at the first return code above Warnings
BuildFailed(configuration, codes) ==
    LET runs == BuildLoop(configuration, codes, 1, <<>>)
    IN runs # <<>> /\ runs[Len(runs)].returncode > ASReturnCodes["Warnings"]

\* CmdLineExportLib.main, lines 26-94: the arguments are parsed, the
\* configurations are looked up and, unless --buildMode is None, built one by
\* one; sys.exit ends the run when no configuration is found or a build fails
CmdLineStart(configuration, buildMode, codes, overwrite, whitelist, blacklist) ==
    /\ UNCHANGED notScriptVars
    /\ UNCHANGED exportVars
    /\ pc = "idle"
    /\ script.name = "none"
    /\ LET args == [name |-> "CmdLineExportLib", before |-> destDirs, overwrite |-> overwrite,
                    buildConfigs |-> libBuildConfig(configuration),
                    whitelist |-> whitelist, blacklist |-> blacklist,
                    status |-> "exporting", exit |-> ""]
       IN script' =
             IF libBuildConfig(configuration) = <<>>
             THEN [args EXCEPT !.status = "exited",
                               !.exit = "Configuration passed in is not part of AS project"]
             ELSE IF buildMode # "None" /\ BuildFailed(configuration, codes)
             THEN [args EXCEPT !.status = "exited", !.exit = "Build failed for config {config}"]
             ELSE args

\* CmdLineExportLib.main, line 97: the call of Project.exportLibraries
CmdLineExport ==
    /\ script.name = "CmdLineExportLib"
    /\ script.status = "exporting"
    /\ CallExportLibraries(script.overwrite, Given(script.buildConfigs),
                           script.whitelist, script.blacklist)

\* CmdLineExportLib.main, lines 100-111: the destination of every failed export
\* is removed with shutil.rmtree, whose failure is logged and passed over; then
\* sys.exit(0). An exception that left exportLibraries ends the run instead.
CmdLineEnd ==
    /\ UNCHANGED notScriptVars
    /\ script.name = "CmdLineExportLib"
    /\ script.status = "exporting"
    /\ pc \in {"returned", "raised"}
    /\ IF pc = "raised"
       THEN /\ script' = [script EXCEPT !.status = "exited", !.exit = "Traceback"]
            /\ UNCHANGED destDirs
       ELSE LET failedPaths == {result.failed[k].name : k \in 1..Len(result.failed)} \cap destDirs
            IN \E notRemoved \in SUBSET failedPaths :
                  /\ destDirs' = destDirs \ (failedPaths \ notRemoved)
                  /\ script' = [script EXCEPT !.status = "exited", !.exit = "0"]
    /\ UNCHANGED <<libraries, deps, pc, call, exportLibs, batchIdx, stack, exportLog,
                   exportConfigs, result>>

\* ExportLibraries.py, lines 50-93, a whole run with a valid parameter file: the
\* build, whose error code leads to sys.exit(returncode) inside the try, and the
\* call exportLibraries(..., ignores=...), a keyword the method does not have
\* (TypeError). The bare except of line 86 catches both, logs, and the script
\* ends with sys.exit(0).
ExportLibrariesScript(buildMode, codes, ignoreLibraries) ==
    /\ UNCHANGED notScriptVars
    /\ UNCHANGED exportVars
    /\ pc = "idle"
    /\ script.name = "none"
    /\ LET configs == [k \in 1..Len(projectBuildConfigs) |-> projectBuildConfigs[k].name]
           buildFailed == buildMode # "None" /\ BuildFailed(configs, codes)
       IN script' = [name |-> "ExportLibraries", before |-> destDirs,
                     ignoreLibraries |-> ignoreLibraries,
                     buildFailed |-> buildFailed,
                     caught |-> IF buildFailed THEN "SystemExit" ELSE "TypeError",
                     reported |-> {},
                     status |-> "exited", exit |-> "0"]

\* The script's process is gone; the destination stays
ScriptDone ==
    /\ UNCHANGED notScriptVars
    /\ script.name # "none"
    /\ script.status = "exited"
    /\ script' = [name |-> "none"]
    /\ pc' = "idle"
    /\ call' = NoCall
    /\ exportLibs' = <<>>
    /\ batchIdx' = 1
    /\ stack' = <<>>
    /\ exportLog' = <<>>
    /\ exportConfigs' = <<>>
    /\ result' = NewExportInfo
    /\ UNCHANGED <<libraries, deps, destDirs>>

\* A project of three libraries without dependencies and a destination that
\* holds earlier exports of any of them
InitScripts ==
    /\ InitIdleBinary
    /\ InitIdleBuild
    /\ InitIdleInfo
    /\ InitIdleDoc
    /\ InitIdleDeploy
    /\ InitIdlePackage
    /\ InitIdleLibrary
    /\ libraries = <<nA, nB, nC>>
    /\ deps = [l \in Range(libraries) |-> <<>>]
    /\ destDirs \in SUBSET Range(libraries)
    /\ pc = "idle"
    /\ call = NoCall
    /\ exportLibs = <<>>
    /\ batchIdx = 1
    /\ stack = <<>>
    /\ exportLog = <<>>
    /\ exportConfigs = <<>>
    /\ result = NewExportInfo
    /\ script = [name |-> "none"]

\* The white and black lists of the command line
ScriptNameLists == { <<>>, <<nLowerA>>, <<nA, nB>> }

NextScripts ==
    \/ \E configuration \in ConfigurationArgs, buildMode \in {"None", "Build"},
          codes \in [1..2 -> ReturnCodes], overwrite \in BOOLEAN,
          whitelist \in ScriptNameLists, blacklist \in ScriptNameLists :
          CmdLineStart(configuration, buildMode, codes, overwrite, whitelist, blacklist)
    \/ CmdLineExport
    \/ BatchExport
    \/ BatchReturn
    \/ CmdLineEnd
    \/ \E buildMode \in {"None", "Rebuild"}, codes \in [1..2 -> ReturnCodes],
          ignoreLibraries \in IgnoreChoices :
          ExportLibrariesScript(buildMode, codes, ignoreLibraries)
    \/ ScriptDone

SpecScripts == InitScripts /\ [][NextScripts]_vars

----------------------------------------------------------------------------
(* Claims about the export scripts *)

\* C27: a run of ExportLibraries.py with a valid parameter file, whose build
\* returned no error code, leaves every library of the project that
\* ignoreLibraries does not name exported under exportPath, or reported as failed
\* with its destination removed.
C27_ExportLibrariesExports ==
    (script.name = "ExportLibraries" /\ script.status = "exited" /\ ~script.buildFailed) =>
        \A lib \in Range(_checkIgnore(libraries, script.ignoreLibraries)) :
            \/ lib \in destDirs
            \/ lib \in script.reported /\ lib \notin destDirs

\* C29: a run of CmdLineExportLib without --overwrite leaves every library
\* directory that was under the destination before the run in place.
C29_NoOverwriteKeepsExports ==
    (script.name = "CmdLineExportLib" /\ ~script.overwrite) =>
        script.before \subseteq destDirs

----------------------------------------------------------------------------
(* Claims about shared dependencies *)

\* How often a name occurs in a sequence of names
RECURSIVE Occurrences(_, _)
Occurrences(names, name) ==
    IF names = <<>> THEN 0
    ELSE (IF Head(names) = name THEN 1 ELSE 0) + Occurrences(Tail(names), name)

\* The names of the entries of a list of LibExportInfo objects
NamesOf(infos) == [k \in 1..Len(infos) |-> infos[k].name]

\* C28: a dependency-closure export that returns has exported each library of
\* the closure exactly once, and its aggregate holds each of them exactly once,
\* in success or in failed and not in both, also when two libraries share a
\* dependency.
C28_ClosureExportsOnce ==
    (call.op = "exportLibrary" /\ call.withDependencies /\ pc = "returned") =>
        \A lib \in Range(exportLog) :
            /\ Occurrences(exportLog, lib) = 1
            /\ Occurrences(NamesOf(result.success) \o NamesOf(result.failed), lib) = 1

----------------------------------------------------------------------------
(* Claims about duplicate entries *)

\* No two entries of the manifest that are not references have the same text
NoDuplicates(doc) ==
    \A i, j \in 1..Len(doc.entries) :
        (i < j /\ ~doc.entries[i].reference /\ ~doc.entries[j].reference)
            => doc.entries[i].text # doc.entries[j].text

\* C30: from a manifest without duplicate names, no sequence of addObject,
\* addEmptyPackage, removeObject and synchPackageFile calls leads to a manifest
\* with two entries of the same name that are not references: every step from a
\* manifest without duplicates (each of them is an initial manifest) leaves a
\* manifest without duplicates.
C30_NoDuplicateEntries == [][NoDuplicates(pkgDoc) => NoDuplicates(pkgDoc')]_vars

====
